---- MODULE Spec2Model ----
(***************************************************************************)
(* A model of the FFT engine of dsp-collection (signal/Fft.ts,             *)
(* math/ComplexArray.ts, math/MathUtils.ts, signal/Dft.ts).                *)
(*                                                                         *)
(* Numbers.  The code computes with doubles; every number it ever forms    *)
(* from integer samples lies in the ring Z[1/2, 1/n, zeta], zeta a         *)
(* primitive WaveUnit-th root of unity (cos and sin of multiples of        *)
(* 2*pi/W are (zeta^k + zeta^-k)/2 and (zeta^k - zeta^-k)/(2i), with       *)
(* i = zeta^(WaveUnit/4)).  The model computes in the image of that ring   *)
(* in the prime field of FieldPrime elements, where such a zeta exists:    *)
(* +, -, * and 1/n are the field's, Math.cos and Math.sin are given by     *)
(* the phase index of their argument.  The map is a ring homomorphism, so  *)
(* two results that differ in the model differ in exact arithmetic.        *)
(* NaN is a value outside the field that every operation propagates (it    *)
(* is what a read outside an array's bounds turns into).                   *)
(*                                                                         *)
(* Memory.  A Float64Array is a reference [buf, off, len] into a heap of   *)
(* buffers, a ComplexArray a record [re, im, length] of two such           *)
(* references, so that sharing (swapReIm, subarray) and copying (slice)    *)
(* are what the code makes them.                                           *)
(***************************************************************************)
EXTENDS Integers, Sequences, FiniteSets, TLC

VARIABLES
    heap,     \* the buffers that are still referenced: a sequence of sequences of numbers
    cache,    \* cooleyTukeySineTableCache: index floorLog2(n) |-> ComplexArray, on the filled slots
    x,        \* the caller's argument array
    y,        \* the array the last call returned
    op,       \* the last operation: "idle", "new", "fft", "fftBack", "write", ...
    calls,    \* the internal calls the last operation made, in order
    err,      \* the message of the Error the last operation threw, or NoError
    arg,      \* the argument values as they were when the last call was entered (prev: one call before)
    worker,               \* BackgroundTaskMgr: whether the Worker has been created
    taskActive,           \* BackgroundTaskMgr: var taskActive (undefined is FALSE)
    activePromise,        \* the promise activePromiseResolve and activePromiseReject belong to, 0: none
    promises,             \* the promises execTask has returned: [state, msg], in order
    toWorker,             \* the requests posted to the worker and not yet received
    toMain,               \* the messages the worker has posted and the main thread has not yet received
    console               \* the lines written with console.log

taskVars == <<worker, taskActive, activePromise, promises, toWorker, toMain, console>>

vars == <<heap, cache, x, y, op, calls, err, arg, taskVars>>

(***************************************************************************)
(* Bounds of the model.                                                    *)
(***************************************************************************)
MaxLen == 5        \* longest argument array
MaxNonZero == 1    \* number of non-zero elements of an argument array
MaxWrites == 2     \* element writes after a slice or subarray call
MaxTasks == 3      \* calls of execTask
MaxIgnored == 2    \* console lines after which the worker posts no message of its own
MaxLog2 == 3       \* the radix-2 steps run on arrays of up to 2^MaxLog2 elements
MaxBluestein == 64 \* longest array whose Bluestein working size is computed
MaxResample == 20  \* longest input and output array of a resampling call

\* The values of the non-zero elements, as <<re, im>> integers: the first one of
\* an array is ElemVals[1], the second one ElemVals[2], and so on.
ElemVals == <<<<3, 8>>, <<4, -3>>, <<2, 2>>, <<1, 9>>>>

(***************************************************************************)
(* Arithmetic.                                                             *)
(***************************************************************************)
WaveUnit == 16 * 9 * 5 * 7
FieldPrime == 9 * WaveUnit + 1
NaN == FieldPrime

Real(k) == k % FieldPrime

AddF(a, b) == IF a = NaN \/ b = NaN THEN NaN ELSE (a + b) % FieldPrime
SubF(a, b) == IF a = NaN \/ b = NaN THEN NaN ELSE (a - b) % FieldPrime
MulF(a, b) == IF a = NaN \/ b = NaN THEN NaN ELSE (a * b) % FieldPrime
NegF(a) == SubF(0, a)

RECURSIVE PowF(_, _)
PowF(b, e) ==
    IF e = 0 THEN 1
    ELSE LET hlf == PowF(b, e \div 2)
             sq == MulF(hlf, hlf)
         IN IF e % 2 = 1 THEN MulF(sq, b) ELSE sq

\* 1 / n
InvF(n) == PowF(Real(n), FieldPrime - 2)
\* a / b.  Division by 0 gives Infinity or NaN, neither of them a number: NaN here.
DivF(a, b) == IF a = NaN \/ b = NaN \/ b = 0 THEN NaN ELSE MulF(a, InvF(b))

\* A primitive WaveUnit-th root of unity (11 generates the field's units).
Zeta == PowF(11, (FieldPrime - 1) \div WaveUnit)
ImagUnit == PowF(Zeta, WaveUnit \div 4)
Half == InvF(2)

\* The powers of zeta, computed once.
ZetaPowers == [k \in 0..(WaveUnit - 1) |-> PowF(Zeta, k)]

\* zeta_W^k, the unit-circle point of phase k * 2*pi/W, for W dividing WaveUnit.
UnitRoot(k, W) == ZetaPowers[(k % W) * (WaveUnit \div W)]

\* Math.cos(k * (2 * Math.PI / W)) and Math.sin(k * (2 * Math.PI / W))
Cos(k, W) == MulF(AddF(UnitRoot(k, W), UnitRoot(-k, W)), Half)
Sin(k, W) == MulF(SubF(UnitRoot(k, W), UnitRoot(-k, W)), MulF(Half, NegF(ImagUnit)))

(***************************************************************************)
(* 32-bit integer operations of MathUtils and of incrementBitReversed.     *)
(***************************************************************************)
RECURSIVE BitAnd(_, _)
BitAnd(a, b) ==
    IF a = 0 \/ b = 0 THEN 0
    ELSE 2 * BitAnd(a \div 2, b \div 2) + (IF a % 2 = 1 /\ b % 2 = 1 THEN 1 ELSE 0)

RECURSIVE BitOr(_, _)
BitOr(a, b) ==
    IF a = 0 THEN b
    ELSE IF b = 0 THEN a
    ELSE 2 * BitOr(a \div 2, b \div 2) + (IF a % 2 = 1 \/ b % 2 = 1 THEN 1 ELSE 0)

RECURSIVE Clz32(_)
Clz32(v) == IF v = 0 THEN 32 ELSE Clz32(v \div 2) - 1

isPowerOf2(i) ==
    IF i < 1 \/ i > 2^30 THEN FALSE
    ELSE BitAnd(i, i - 1) = 0

RECURSIVE getNextPowerOf2Loop(_, _)
getNextPowerOf2Loop(n, v) == IF n <= v THEN getNextPowerOf2Loop(n * 2, v) ELSE n

getNextPowerOf2(v) == getNextPowerOf2Loop(1, v)

\* floorLog2 throws for an argument outside 1 .. 2^31-1; FloorLog2Valid is its guard.
FloorLog2Valid(v) == ~(v > 2^30 + (2^30 - 1) \/ v < 1)
floorLog2(v) == 31 - Clz32(v)

(***************************************************************************)
(* The heap, Float64Array and ComplexArray.                                *)
(***************************************************************************)
NoError == "none"

Zeros(n) == [i \in 1..n |-> 0]

\* emptyFloat64Array of ComplexArray.ts lives in buffer 1 for ever.
EmptyBuf == 1
emptyFloat64Array == [buf |-> EmptyBuf, off |-> 0, len |-> 0]

\* No array at all (the imaginary part of a plain Float64Array of reals).
NoF64 == [buf |-> 0, off |-> 0, len |-> 0]

\* new Float64Array(n): a fresh zero-filled buffer at the end of the heap.
NewF64(h, n) == [h |-> Append(h, Zeros(n)), r |-> [buf |-> Len(h) + 1, off |-> 0, len |-> n]]

\* f[i], which is undefined, and NaN in arithmetic, outside the array
RdF(h, f, i) == IF i >= 0 /\ i < f.len THEN h[f.buf][f.off + i + 1] ELSE NaN

\* f[i] = v, which is ignored outside the array
WrF(h, f, i, v) == IF i >= 0 /\ i < f.len THEN [h EXCEPT ![f.buf][f.off + i + 1] = v] ELSE h

\* TLC evaluates an operator's arguments when they are first used; a loop tests
\* Evaluated(h) so that each iteration's heap is computed before the next one starts.
\* It is true of every heap: emptyFloat64Array's buffer is always there.
Evaluated(h) == h # <<>>

\* The numbers of a Float64Array, as a sequence.
F64Vals(h, f) == [i \in 1..f.len |-> h[f.buf][f.off + i]]

\* new ComplexArray(length)
constructByLength(h, length) ==
    IF length # 0
    THEN LET a == NewF64(h, length)
             b == NewF64(a.h, length)
         IN [h |-> b.h, r |-> [re |-> a.r, im |-> b.r, length |-> length]]
    ELSE [h |-> h, r |-> [re |-> emptyFloat64Array, im |-> emptyFloat64Array, length |-> 0]]

\* new ComplexArray(a) for an array a of Complex values, here a sequence of <<re, im>>
constructByArrayOfComplex(h, a) ==
    LET n == Len(a)
        hr == Append(h, [i \in 1..n |-> Real(a[i][1])])
        hi == Append(hr, [i \in 1..n |-> Real(a[i][2])])
    IN [h |-> hi,
        r |-> [re |-> [buf |-> Len(h) + 1, off |-> 0, len |-> n],
               im |-> [buf |-> Len(h) + 2, off |-> 0, len |-> n],
               length |-> n]]

\* new Float64Array(a) for a sequence a of integers
NewF64From(h, a) ==
    [h |-> Append(h, [i \in 1..Len(a) |-> Real(a[i])]),
     r |-> [buf |-> Len(h) + 1, off |-> 0, len |-> Len(a)]]

\* A Float64Array of reals where the code takes an ArrayLike<number> or returns one.
RealArray(f) == [re |-> f, im |-> NoF64, length |-> f.len]

\* new ComplexArray(a) for an array a of numbers: a copy of a, and zeros
constructByArrayOfNumber(h, f) ==
    LET s1 == Append(h, F64Vals(h, f))
        s2 == Append(s1, Zeros(f.len))
    IN [h |-> s2,
        r |-> [re |-> [buf |-> Len(h) + 1, off |-> 0, len |-> f.len],
               im |-> [buf |-> Len(h) + 2, off |-> 0, len |-> f.len],
               length |-> f.len]]

\* TypedArray.prototype.slice and subarray clamp their relative indices alike.
ClampIndex(i, len) == IF i < 0 THEN (IF len + i < 0 THEN 0 ELSE len + i)
                      ELSE IF i > len THEN len ELSE i

SliceF64(h, f, begin, end) ==
    LET b == ClampIndex(begin, f.len)
        e == ClampIndex(end, f.len)
        n == IF e > b THEN e - b ELSE 0
    IN [h |-> Append(h, [i \in 1..n |-> h[f.buf][f.off + b + i]]),
        r |-> [buf |-> Len(h) + 1, off |-> 0, len |-> n]]

\* ComplexArray.slice(begin, end): copies of both parts
slice(h, a, begin, end) ==
    LET s1 == SliceF64(h, a.re, begin, end)
        s2 == SliceF64(s1.h, a.im, begin, end)
    IN [h |-> s2.h, r |-> [re |-> s1.r, im |-> s2.r, length |-> s1.r.len]]

\* Mutant: the view starts at the start of the array.
SubarrayF64Unshifted(f, begin, end) ==
    LET b == ClampIndex(begin, f.len)
        e == ClampIndex(end, f.len)
    IN [buf |-> f.buf, off |-> f.off, len |-> IF e > b THEN e - b ELSE 0]

\* TypedArray.prototype.subarray(begin, end): a view of the same buffer
SubarrayF64(f, begin, end) ==
    LET b == ClampIndex(begin, f.len)
        e == ClampIndex(end, f.len)
    IN [buf |-> f.buf, off |-> f.off + b, len |-> IF e > b THEN e - b ELSE 0]

\* Mutant: the view covers end + 1 - begin elements.
subarrayOneMore(a, begin, end) ==
    [re |-> SubarrayF64(a.re, begin, end + 1), im |-> SubarrayF64(a.im, begin, end + 1),
     length |-> end + 1 - begin]

\* ComplexArray.subarray(begin, end): views of both parts, and length = end - begin
subarray(a, begin, end) ==
    [re |-> SubarrayF64(a.re, begin, end), im |-> SubarrayF64(a.im, begin, end),
     length |-> end - begin]

\* Mutant: the array itself is returned instead of a copy.
sliceAllNoCopy(h, a) == [h |-> h, r |-> a]

\* a.slice(): begin and end undefined
sliceAll(h, a) ==
    LET s1 == SliceF64(h, a.re, 0, a.re.len)
        s2 == SliceF64(s1.h, a.im, 0, a.im.len)
    IN [h |-> s2.h, r |-> [re |-> s1.r, im |-> s2.r, length |-> s1.r.len]]

\* ComplexArray.setMul(i, re1, im1, re2, im2)
setMul(h, a, i, re1, im1, re2, im2) ==
    LET h1 == WrF(h, a.re, i, SubF(MulF(re1, re2), MulF(im1, im2)))
    IN WrF(h1, a.im, i, AddF(MulF(re1, im2), MulF(im1, re2)))

\* ComplexArray.copy1(a1, i1, a2, i2)
copy1(h, a1, i1, a2, i2) ==
    LET h1 == WrF(h, a2.re, i2, RdF(h, a1.re, i1))
    IN WrF(h1, a2.im, i2, RdF(h1, a1.im, i1))

\* ComplexArray.setReIm(i, re, im)
setReIm(h, a, i, re, im) == WrF(WrF(h, a.re, i, re), a.im, i, im)

\* ComplexArray.setPolar(i, abs, arg), the angle being phase quarter turns (4 to a turn)
setPolar(h, a, i, abs, phase) ==
    WrF(WrF(h, a.re, i, MulF(abs, Cos(phase, 4))),
        a.im, i, MulF(abs, Sin(phase, 4)))

RECURSIVE fromPolarLoop(_, _, _, _, _)
fromPolarLoop(h, a, absArray, argArray, i) ==
    IF i < Len(absArray) /\ Evaluated(h)
    THEN fromPolarLoop(setPolar(h, a, i, Real(absArray[i + 1]), argArray[i + 1]),
                       a, absArray, argArray, i + 1)
    ELSE h

\* fromPolar once a = new ComplexArray(n) is there
fromPolarInto(a, absArray, argArray) ==
    [h |-> fromPolarLoop(a.h, a.r, absArray, argArray, 0), r |-> a.r]

\* ComplexArray.fromPolar(absArray, argArray) for two arrays of one length, which is
\* what its assertion lets through.
fromPolar(h, absArray, argArray) ==
    fromPolarInto(constructByLength(h, Len(absArray)), absArray, argArray)

\* ComplexArray.setDiv(i, re1, im1, re2, im2), with m = re1 * re1 + im1 * im1
setDiv(h, a, i, re1, im1, re2, im2) ==
    WrF(WrF(h, a.re, i, DivF(AddF(MulF(re1, re2), MulF(im1, im2)),
                             AddF(MulF(re1, re1), MulF(im1, im1)))),
        a.im, i, DivF(SubF(MulF(im1, re2), MulF(re1, im2)),
                      AddF(MulF(re1, re1), MulF(im1, im1))))

\* ComplexArray.divBy(i, x), x a Complex given as <<re, im>>
divBy(h, a, i, c) == setDiv(h, a, i, RdF(h, a.re, i), RdF(h, a.im, i), c[1], c[2])

\* MutableComplex.setDiv(re1, im1, re2, im2): the new value of this, as <<re, im>>
MutableComplexSetDiv(re1, im1, re2, im2) ==
    <<DivF(AddF(MulF(re1, re2), MulF(im1, im2)), AddF(MulF(re1, re1), MulF(im1, im1))),
      DivF(SubF(MulF(im1, re2), MulF(re1, im2)), AddF(MulF(re1, re1), MulF(im1, im1)))>>

\* MutableComplex.divBy(x) on the value c
MutableComplexDivBy(c, d) == MutableComplexSetDiv(c[1], c[2], d[1], d[2])

\* Complex.div(x): this / x, with m = x.re * x.re + x.im * x.im
ComplexDiv(c, d) ==
    <<DivF(AddF(MulF(c[1], d[1]), MulF(c[2], d[2])), AddF(MulF(d[1], d[1]), MulF(d[2], d[2]))),
      DivF(SubF(MulF(c[2], d[1]), MulF(c[1], d[2])), AddF(MulF(d[1], d[1]), MulF(d[2], d[2])))>>

\* Complex.mul(x)
ComplexMul(c, d) ==
    <<SubF(MulF(c[1], d[1]), MulF(c[2], d[2])), AddF(MulF(c[1], d[2]), MulF(c[2], d[1]))>>

\* ComplexArray.mulByReal(i, v)
mulByReal(h, a, i, v) ==
    LET h1 == WrF(h, a.re, i, MulF(RdF(h, a.re, i), v))
    IN WrF(h1, a.im, i, MulF(RdF(h1, a.im, i), v))

RECURSIVE mulAllByRealLoop(_, _, _, _)
mulAllByRealLoop(h, a, v, i) ==
    IF i < a.length /\ Evaluated(h) THEN mulAllByRealLoop(mulByReal(h, a, i, v), a, v, i + 1) ELSE h

\* Mutant: the scaling is left out.
mulAllByRealUnscaled(h, a, v) == h

\* ComplexArray.mulAllByReal(v)
mulAllByReal(h, a, v) == mulAllByRealLoop(h, a, v, 0)

RECURSIVE mulByArrayLoop(_, _, _, _)
mulByArrayLoop(h, a, a2, i) ==
    IF i < a.length /\ Evaluated(h)
    THEN mulByArrayLoop(
             setMul(h, a, i, RdF(h, a.re, i), RdF(h, a.im, i), RdF(h, a2.re, i), RdF(h, a2.im, i)),
             a, a2, i + 1)
    ELSE h

\* Mutant: arrays of any two lengths are multiplied.
mulByArrayAlwaysValid(a, a2) == TRUE

\* ComplexArray.mulByArray(a2); its assert throws when the lengths differ.
mulByArrayValid(a, a2) == a2.length = a.length
mulByArray(h, a, a2) == mulByArrayLoop(h, a, a2, 0)

\* The complex values of a ComplexArray, as a sequence of <<re, im>>; an array of
\* reals reads as complex values with imaginary part 0.
Vals(h, a) ==
    [i \in 1..a.length |->
        <<RdF(h, a.re, i - 1), IF a.im.buf = 0 THEN 0 ELSE RdF(h, a.im, i - 1)>>]

(***************************************************************************)
(* Fft.ts.  The functions work on a machine record                         *)
(*   m = [h: the heap, cache: the sine table cache, log: the internal      *)
(*        calls made so far, err: the Error thrown or NoError]             *)
(* and return [m |-> the machine afterwards, r |-> the value returned].    *)
(* After a throw (m.err # NoError) the remaining steps are skipped.        *)
(***************************************************************************)
Ret(m, r) == [m |-> m, r |-> r]
Throw(m, msg) == [m |-> [m EXCEPT !.err = msg], r |-> [re |-> NoF64, im |-> NoF64, length |-> 0]]
Logged(m, fn, n) == [m EXCEPT !.log = Append(@, [fn |-> fn, n |-> n])]

RECURSIVE createSineTableLoop(_, _, _, _, _, _)
createSineTableLoop(h, a, tableLength, waveLength, rotationalDirection, i) ==
    IF i < tableLength /\ Evaluated(h)
    THEN LET h1 == WrF(h, a.re, i, Cos(i, waveLength))
             h2 == WrF(h1, a.im, i,
                       IF rotationalDirection THEN Sin(i, waveLength) ELSE NegF(Sin(i, waveLength)))
         IN createSineTableLoop(h2, a, tableLength, waveLength, rotationalDirection, i + 1)
    ELSE h

createSineTable(h, tableLength, waveLength, rotationalDirection) ==
    LET a == constructByLength(h, tableLength)
    IN [h |-> createSineTableLoop(a.h, a.r, tableLength, waveLength, rotationalDirection, 0),
        r |-> a.r]

\* Mutant: the table rotates the other way (createSineTable's default direction).
createCooleyTukeySineTableDefaultDirection(h, n) == createSineTable(h, n \div 2, n, TRUE)

createCooleyTukeySineTable(h, n) == createSineTable(h, n \div 2, n, FALSE)

RECURSIVE createSineOfSquareTableLoop(_, _, _, _, _)
createSineOfSquareTableLoop(h, a, tableLength, waveLength, i) ==
    IF i < tableLength /\ Evaluated(h)
    THEN LET t == (i * i) % waveLength
             h1 == WrF(h, a.re, i, Cos(t, waveLength))
             h2 == WrF(h1, a.im, i, Sin(t, waveLength))
         IN createSineOfSquareTableLoop(h2, a, tableLength, waveLength, i + 1)
    ELSE h

\* Mutant: the phase of entry i is i, not i * i.
createSineOfSquareTableNoSquare(h, tableLength, waveLength) ==
    createSineTable(h, tableLength, waveLength, TRUE)

createSineOfSquareTable(h, tableLength, waveLength) ==
    LET a == constructByLength(h, tableLength)
    IN [h |-> createSineOfSquareTableLoop(a.h, a.r, tableLength, waveLength, 0), r |-> a.r]

\* Mutant: two sizes share a slot.
cacheIndexHalved(n) == floorLog2(n) \div 2

\* The slot of the cache a table of size n lives in.
cacheIndex(n) == floorLog2(n)

\* Mutant: the cache array is created anew on every miss, which drops the other tables.
setCachedTableReset(m, log2N, t) ==
    Ret([m EXCEPT !.h = t.h, !.cache = (log2N :> t.r)], t.r)

\* cooleyTukeySineTableCache[log2N] = t, and t is the value of the call
setCachedTable(m, log2N, t) ==
    Ret([m EXCEPT !.h = t.h, !.cache = (log2N :> t.r) @@ @], t.r)

getCachedCooleyTukeySineTable(m0, n) ==
    LET m == Logged(m0, "getCachedCooleyTukeySineTable", n)
    IN IF ~FloorLog2Valid(n) THEN Throw(m, "Argument is not a valid integer.")
       ELSE IF cacheIndex(n) \notin DOMAIN m.cache
       THEN setCachedTable(Logged(m, "createCooleyTukeySineTable", n), cacheIndex(n),
                           createCooleyTukeySineTable(m.h, n))
       ELSE Ret(m, m.cache[cacheIndex(n)])

RECURSIVE incrementBitReversedLoop(_, _)
incrementBitReversedLoop(a, m) ==
    IF BitAnd(a, m) # 0 THEN incrementBitReversedLoop(a - m, m \div 2) ELSE BitOr(a, m)

\* Mutant: the bits are walked from the highest one down to the second lowest.
incrementBitReversedShort(i, n) == incrementBitReversedLoop(i, n \div 4)

incrementBitReversed(i, n) == incrementBitReversedLoop(i, n \div 2)

RECURSIVE copyBitReversedLoop(_, _, _, _, _)
copyBitReversedLoop(h, a1, a2, i1, i2) ==
    IF i2 < a1.length /\ Evaluated(h)
    THEN LET h1 == WrF(h, a2.re, i2, RdF(h, a1.re, i1))
             h2 == WrF(h1, a2.im, i2, RdF(h1, a1.im, i1))
         IN copyBitReversedLoop(h2, a1, a2, incrementBitReversed(i1, a1.length), i2 + 1)
    ELSE h

copyBitReversed(h, a1) ==
    LET a2 == constructByLength(h, a1.length)
    IN [h |-> copyBitReversedLoop(a2.h, a1, a2.r, 0, 0), r |-> a2.r]

\* Mutant: a[i] is updated before a[j] is computed from it.
butterflyWrongOrder(h, a, i, j, wRe, wIm) ==
    LET reJ == RdF(h, a.re, j)
        imJ == RdF(h, a.im, j)
        tempRe == SubF(MulF(reJ, wRe), MulF(imJ, wIm))
        tempIm == AddF(MulF(reJ, wIm), MulF(imJ, wRe))
        h1 == WrF(h, a.re, i, AddF(RdF(h, a.re, i), tempRe))
        h2 == WrF(h1, a.im, i, AddF(RdF(h1, a.im, i), tempIm))
        h3 == WrF(h2, a.re, j, SubF(RdF(h2, a.re, i), tempRe))
    IN WrF(h3, a.im, j, SubF(RdF(h3, a.im, i), tempIm))

\* One butterfly: the body of the innermost loop of applyButterflies.
butterfly(h, a, i, j, wRe, wIm) ==
    LET reJ == RdF(h, a.re, j)
        imJ == RdF(h, a.im, j)
        tempRe == SubF(MulF(reJ, wRe), MulF(imJ, wIm))
        tempIm == AddF(MulF(reJ, wIm), MulF(imJ, wRe))
        h1 == WrF(h, a.re, j, SubF(RdF(h, a.re, i), tempRe))
        h2 == WrF(h1, a.im, j, SubF(RdF(h1, a.im, i), tempIm))
        h3 == WrF(h2, a.re, i, AddF(RdF(h2, a.re, i), tempRe))
    IN WrF(h3, a.im, i, AddF(RdF(h3, a.im, i), tempIm))

RECURSIVE butterflyLoopI(_, _, _, _, _, _)
butterflyLoopI(h, a, mMax, wRe, wIm, i) ==
    IF i < a.length /\ Evaluated(h)
    THEN butterflyLoopI(butterfly(h, a, i, i + mMax, wRe, wIm), a, mMax, wRe, wIm, i + mMax * 2)
    ELSE h

\* Mutant: the step through the sine table is n / mMax.
wIndexDouble(n, mMax, m) == m * (n \div mMax)

\* The index into the sine table used by group m of the stage of width mMax.
wIndex(n, mMax, m) == m * (n \div (mMax * 2))

RECURSIVE butterflyLoopM(_, _, _, _, _)
butterflyLoopM(h, a, sineTable, mMax, m) ==
    IF m < mMax /\ Evaluated(h)
    THEN LET wi == wIndex(a.length, mMax, m)
             wRe == RdF(h, sineTable.re, wi)
             wIm == RdF(h, sineTable.im, wi)
         IN butterflyLoopM(butterflyLoopI(h, a, mMax, wRe, wIm, m), a, sineTable, mMax, m + 1)
    ELSE h

RECURSIVE butterflyLoopMMax(_, _, _, _)
butterflyLoopMMax(h, a, sineTable, mMax) ==
    IF mMax < a.length /\ Evaluated(h)
    THEN butterflyLoopMMax(butterflyLoopM(h, a, sineTable, mMax, 0), a, sineTable, mMax * 2)
    ELSE h

applyButterflies(h, a, sineTable) == butterflyLoopMMax(h, a, sineTable, 1)

\* fftCooleyTukey once the sine table t is there
fftCooleyTukeyWithTable(t, xa) ==
    IF t.m.err # NoError THEN t
    ELSE LET a == copyBitReversed(t.m.h, xa)
         IN Ret([t.m EXCEPT !.h = applyButterflies(a.h, a.r, t.r)], a.r)

fftCooleyTukey(m0, xa) ==
    fftCooleyTukeyWithTable(
        getCachedCooleyTukeySineTable(Logged(m0, "fftCooleyTukey", xa.length), xa.length), xa)

\* Mutant: the parts are not swapped.
swapReImSameParts(a) == [re |-> a.re, im |-> a.im, length |-> a.length]

\* Swaps the real and imaginary parts: a new ComplexArray over the same two arrays.
swapReIm(a) == [re |-> a.im, im |-> a.re, length |-> a.length]

RECURSIVE modulateLoop(_, _, _, _, _, _)
\* dst[i] = src[i] * conj(sineTable[i]) for i < n
modulateLoop(h, dst, src, sineTable, n, i) ==
    IF i < n /\ Evaluated(h)
    THEN modulateLoop(
             setMul(h, dst, i, RdF(h, src.re, i), RdF(h, src.im, i),
                    RdF(h, sineTable.re, i), NegF(RdF(h, sineTable.im, i))),
             dst, src, sineTable, n, i + 1)
    ELSE h

\* The loop above run on the newly constructed array a.
modulate(a, src, sineTable, n) == [h |-> modulateLoop(a.h, a.r, src, sineTable, n, 0), r |-> a.r]

RECURSIVE kernelLoop1(_, _, _, _, _)
kernelLoop1(h, sineTable, a2, n, i) ==
    IF i < n /\ Evaluated(h) THEN kernelLoop1(copy1(h, sineTable, i, a2, i), sineTable, a2, n, i + 1) ELSE h

RECURSIVE kernelLoop2(_, _, _, _, _, _)
kernelLoop2(h, sineTable, a2, n, m, i) ==
    IF i < n /\ Evaluated(h) THEN kernelLoop2(copy1(h, sineTable, i, a2, m - i), sineTable, a2, n, m, i + 1) ELSE h

\* Mutant: the mirror copies are left out.
kernelNoMirror(a, sineTable, n, m) ==
    [h |-> kernelLoop1(a.h, sineTable, a.r, n, 0), r |-> a.r]

\* The two loops above run on the newly constructed array a.
kernel(a, sineTable, n, m) ==
    [h |-> kernelLoop2(kernelLoop1(a.h, sineTable, a.r, n, 0), sineTable, a.r, n, m, 1), r |-> a.r]

\* Mutant: the working size is the next power of two above n.
bluesteinSizeOfLength(n) == getNextPowerOf2(n)

\* The working size of the Bluestein transform of length n.
bluesteinSize(n) == getNextPowerOf2(2 * n - 3)

RECURSIVE fft(_, _, _)
RECURSIVE convolve(_, _, _)
RECURSIVE fftBluestein(_, _)

\* convolve: a5.mulAllByReal(1 / n); return a5
convolveScaled(a5, n) ==
    IF a5.m.err # NoError THEN a5
    ELSE Ret([a5.m EXCEPT !.h = mulAllByReal(@, a5.r, InvF(n))], a5.r)

\* convolve: a3.mulByArray(a4); a5 = fft(a3, false)
convolveProduct(a3, a4, n) ==
    IF a4.m.err # NoError THEN a4
    ELSE IF ~mulByArrayValid(a3.r, a4.r) THEN Throw(a4.m, "Assertion failed.")
    ELSE convolveScaled(
             fft([a4.m EXCEPT !.h = mulByArray(a4.m.h, a3.r, a4.r)], a3.r, FALSE), n)

\* Mutant: the spectrum of a1 is taken for that of a2.
convolveSecondReused(a3, a2, n) ==
    IF a3.m.err # NoError THEN a3
    ELSE convolveProduct(a3, a3, n)

\* convolve: a4 = fft(a2)
convolveSecond(a3, a2, n) ==
    IF a3.m.err # NoError THEN a3
    ELSE convolveProduct(a3, fft(a3.m, a2, TRUE), n)

convolve(m, a1, a2) ==
    IF a2.length # a1.length THEN Throw(m, "Array lengths are not equal.")
    ELSE convolveSecond(fft(m, a1, TRUE), a2, a1.length)

\* fftBluestein: a4[i] = a3[i] * conj(sineTable[i]) for i < n
fftBluesteinResult(a3, sineTable, n) ==
    IF a3.m.err # NoError THEN a3
    ELSE LET a4 == modulate(constructByLength(a3.m.h, n), a3.r, sineTable, n)
         IN Ret([a3.m EXCEPT !.h = a4.h], a4.r)

\* fftBluestein: a2 and the convolution, a1 being there
fftBluesteinConvolve(mm, sineTable, a1, n, m) ==
    LET a2 == kernel(constructByLength(a1.h, m), sineTable, n, m)
    IN fftBluesteinResult(convolve([mm EXCEPT !.h = a2.h], a1.r, a2.r), sineTable, n)

\* fftBluestein once the sine table is there
fftBluesteinWithTable(mm, xa, sineTable, n, m) ==
    fftBluesteinConvolve(mm, sineTable.r,
                         modulate(constructByLength(sineTable.h, m), xa, sineTable.r, n), n, m)

fftBluestein(m0, xa) ==
    fftBluesteinWithTable(Logged(m0, "fftBluestein", xa.length), xa,
                          createSineOfSquareTable(m0.h, xa.length, 2 * xa.length),
                          xa.length, bluesteinSize(xa.length))

\* fft: return direction ? x3 : swapReIm(x3)
fftResult(x3, direction) ==
    IF x3.m.err # NoError THEN x3
    ELSE IF direction THEN Ret(x3.m, x3.r)
    ELSE Ret(Logged(x3.m, "swapReIm", x3.r.length), swapReIm(x3.r))

\* x.slice(), the value of fft for n <= 1
fftCopy(m, s) == Ret([m EXCEPT !.h = s.h], s.r)

\* Mutant: only the empty array is returned as a copy.
fftCopiesEmptyOnly(m0, xa, direction) ==
    LET m == Logged(m0, "fft", xa.length)
        n == xa.length
        x2 == IF direction THEN xa ELSE swapReIm(xa)
    IN IF n <= 0 THEN fftCopy(m, sliceAll(m.h, xa))
       ELSE fftResult(IF isPowerOf2(n) THEN fftCooleyTukey(m, x2) ELSE fftBluestein(m, x2),
                      direction)

fft(m0, xa, direction) ==
    LET m == Logged(m0, "fft", xa.length)
        n == xa.length
        x2 == IF direction THEN xa ELSE swapReIm(xa)
    IN IF n <= 1 THEN fftCopy(m, sliceAll(m.h, xa))
       ELSE fftResult(IF isPowerOf2(n) THEN fftCooleyTukey(m, x2) ELSE fftBluestein(m, x2),
                      direction)

(***************************************************************************)
(* The fast paths for real signals.                                        *)
(***************************************************************************)
RECURSIVE packLoop(_, _, _, _, _)
\* a1[i] = (x[2 i], x[2 i + 1]) for i < n
packLoop(h, a1, xr, n, i) ==
    IF i < n /\ Evaluated(h)
    THEN LET h1 == WrF(h, a1.re, i, RdF(h, xr, 2 * i))
             h2 == WrF(h1, a1.im, i, RdF(h1, xr, 2 * i + 1))
         IN packLoop(h2, a1, xr, n, i + 1)
    ELSE h

RECURSIVE halfSpectrumLoop(_, _, _, _, _)
halfSpectrumLoop(h, a2, a3, n, i) ==
    IF i < n /\ Evaluated(h)
    THEN LET sRe == Sin(i, 2 * n)
             sIm == Cos(i, 2 * n)
             re1 == RdF(h, a2.re, i)
             im1 == RdF(h, a2.im, i)
             re2 == RdF(h, a2.re, n - i)
             im2 == RdF(h, a2.im, n - i)
             c1Re == MulF(SubF(1, sRe), Half)
             c2Re == MulF(AddF(1, sRe), Half)
             cIm == MulF(NegF(sIm), Half)
             temp1Re == SubF(MulF(re1, c1Re), MulF(im1, cIm))
             temp1Im == AddF(MulF(re1, cIm), MulF(im1, c1Re))
             temp2Re == SubF(MulF(re2, c2Re), MulF(im2, cIm))
             temp2Im == AddF(MulF(re2, cIm), MulF(im2, c2Re))
             h1 == WrF(h, a3.re, i, AddF(temp1Re, temp2Re))
             h2 == WrF(h1, a3.im, i, SubF(temp1Im, temp2Im))
         IN halfSpectrumLoop(h2, a2, a3, n, i + 1)
    ELSE h

\* Mutant: the first pair of samples is left out.
packFromSecond(a1, xr, n) == [h |-> packLoop(a1.h, a1.r, xr, n, 1), r |-> a1.r]

\* The loop above run on the newly constructed array a1.
pack(a1, xr, n) == [h |-> packLoop(a1.h, a1.r, xr, n, 0), r |-> a1.r]

\* fftRealHalf: the DC and Nyquist bins and the loop over the other bins of a3
halfSpectrum(a2, a3, n, inclNyquist) ==
    LET re0 == RdF(a3.h, a2.r.re, 0)
        im0 == RdF(a3.h, a2.r.im, 0)
        h3 == WrF(WrF(a3.h, a3.r.re, 0, AddF(re0, im0)), a3.r.im, 0, 0)
        h4 == IF inclNyquist
              THEN WrF(WrF(h3, a3.r.re, n, SubF(re0, im0)), a3.r.im, n, 0)
              ELSE h3
    IN Ret([a2.m EXCEPT !.h = halfSpectrumLoop(h4, a2.r, a3.r, n, 1)], a3.r)

\* fftRealHalf once a2 = fft(a1) is there
fftRealHalfResult(a2, n, inclNyquist) ==
    IF a2.m.err # NoError THEN a2
    ELSE halfSpectrum(a2, constructByLength(a2.m.h, n + (IF inclNyquist THEN 1 ELSE 0)),
                      n, inclNyquist)

\* fftRealHalf once a1 is there
fftRealHalfPacked(m0, a1, n, inclNyquist) ==
    fftRealHalfResult(fft([m0 EXCEPT !.h = a1.h], a1.r, TRUE), n, inclNyquist)

\* fftRealHalf once the length m is known to be even and at least 2.
fftRealHalfEven(m0, xa, inclNyquist) ==
    fftRealHalfPacked(m0,
                      pack(constructByLength(m0.h, xa.length \div 2), xa.re, xa.length \div 2),
                      xa.length \div 2, inclNyquist)

\* new ComplexArray(x), the value of fftRealHalf for a length <= 1
fftRealHalfCopy(m0, c) == Ret([m0 EXCEPT !.h = c.h], c.r)

\* Mutant: the length is not checked.
fftRealHalfUnchecked(m0, xa, inclNyquist) ==
    IF xa.length <= 1 THEN fftRealHalfCopy(m0, constructByArrayOfNumber(m0.h, xa.re))
    ELSE fftRealHalfEven(m0, xa, inclNyquist)

fftRealHalf(m0, xa, inclNyquist) ==
    IF xa.length <= 1 THEN fftRealHalfCopy(m0, constructByArrayOfNumber(m0.h, xa.re))
    ELSE IF xa.length % 2 # 0 THEN Throw(m0, "Input array size is not even.")
    ELSE fftRealHalfEven(m0, xa, inclNyquist)

\* xRe and xIm of iFftRealHalfOpt: a missing bin is zero.
xRe(h, xa, i) == IF i < xa.length THEN RdF(h, xa.re, i) ELSE 0
xIm(h, xa, i) == IF i < xa.length THEN RdF(h, xa.im, i) ELSE 0

RECURSIVE fullToPackedLoop(_, _, _, _, _)
fullToPackedLoop(h, xa, a1, n, i) ==
    IF i < n /\ Evaluated(h)
    THEN LET sRe == Sin(i, 2 * n)
             sIm == Cos(i, 2 * n)
             re1 == xRe(h, xa, i)
             im1 == xIm(h, xa, i)
             re2 == xRe(h, xa, n - i)
             im2 == xIm(h, xa, n - i)
             c1Re == MulF(SubF(1, sRe), Half)
             c2Re == MulF(AddF(1, sRe), Half)
             cIm == MulF(sIm, Half)
             temp1Re == SubF(MulF(re1, c1Re), MulF(im1, cIm))
             temp1Im == AddF(MulF(re1, cIm), MulF(im1, c1Re))
             temp2Re == SubF(MulF(re2, c2Re), MulF(im2, cIm))
             temp2Im == AddF(MulF(re2, cIm), MulF(im2, c2Re))
             h1 == WrF(h, a1.re, i, AddF(temp1Re, temp2Re))
             h2 == WrF(h1, a1.im, i, SubF(temp1Im, temp2Im))
         IN fullToPackedLoop(h2, xa, a1, n, i + 1)
    ELSE h

RECURSIVE unpackLoop(_, _, _, _, _)
\* a3[2 i] = a2.re[i], a3[2 i + 1] = a2.im[i] for i < n
unpackLoop(h, a2, a3, n, i) ==
    IF i < n /\ Evaluated(h)
    THEN LET h1 == WrF(h, a3, 2 * i, RdF(h, a2.re, i))
             h2 == WrF(h1, a3, 2 * i + 1, RdF(h1, a2.im, i))
         IN unpackLoop(h2, a2, a3, n, i + 1)
    ELSE h

\* a[i] += v
AddTo(h, f, i, v) == WrF(h, f, i, AddF(RdF(h, f, i), v))

\* a[i] -= v
SubFrom(h, f, i, v) == WrF(h, f, i, SubF(RdF(h, f, i), v))

\* iFftRealHalfOpt: bin 0 and the loop over the other bins of the new array a1
fullToPacked(a1, xa, n, inclNyquist) ==
    LET h2 == WrF(WrF(a1.h, a1.r.re, 0, xRe(a1.h, xa, 0)), a1.r.im, 0, xRe(a1.h, xa, 0))
        h3 == IF inclNyquist
              THEN SubFrom(AddTo(h2, a1.r.re, 0, xRe(h2, xa, n)), a1.r.im, 0, xRe(h2, xa, n))
              ELSE h2
    IN [h |-> fullToPackedLoop(h3, xa, a1.r, n, 1), r |-> a1.r]

\* a Float64Array returned as the value of a call
RetF64(m, a) == Ret([m EXCEPT !.h = a.h], RealArray(a.r))

\* The loop above run on the newly constructed array a3.
unpack(a2, a3, n) ==
    Ret([a2.m EXCEPT !.h = unpackLoop(a3.h, a2.r, a3.r, n, 0)], RealArray(a3.r))

\* iFftRealHalfOpt once a2 = fft(a1, false) is there
iFftRealHalfOptResult(a2, n) ==
    IF a2.m.err # NoError THEN a2
    ELSE unpack(a2, NewF64(a2.m.h, 2 * n), n)

\* iFftRealHalfOpt once a1 is there
iFftRealHalfOptPacked(m0, a1, n) ==
    iFftRealHalfOptResult(fft([m0 EXCEPT !.h = a1.h], a1.r, FALSE), n)

\* iFftRealHalfOpt once len is known to be even and at least 2.
iFftRealHalfOptEven(m0, xa, len, inclNyquist) ==
    iFftRealHalfOptPacked(
        m0, fullToPacked(constructByLength(m0.h, len \div 2), xa, len \div 2, inclNyquist),
        len \div 2)

iFftRealHalfOpt(m0, xa, len, inclNyquist) ==
    IF len <= 0 THEN RetF64(m0, NewF64(m0.h, 0))
    ELSE IF len % 2 # 0 THEN Throw(m0, "output length is not even.")
    ELSE iFftRealHalfOptEven(m0, xa, len, inclNyquist)

\* Mutant: no rotation.
shiftIndexNone(p, d, n) == p

\* The index (p + d) % n element p is copied to.
shiftIndex(p, d, n) == (p + d) % n

RECURSIVE fftShiftLoop(_, _, _, _, _)
fftShiftLoop(h, xa, a, n, p) ==
    IF p < n /\ Evaluated(h)
    THEN fftShiftLoop(copy1(h, xa, p, a, shiftIndex(p, n \div 2, n)), xa, a, n, p + 1)
    ELSE h

\* fftShift once a = new ComplexArray(n) is there
fftShiftInto(m0, a, xa) ==
    Ret([m0 EXCEPT !.h = fftShiftLoop(a.h, xa, a.r, xa.length, 0)], a.r)

fftShift(m0, xa) == fftShiftInto(m0, constructByLength(m0.h, xa.length), xa)

RECURSIVE conjugateLoop(_, _, _, _, _, _)
\* x2[len - 1 - i] = conj(x[1 + i]) for i < n2
conjugateLoop(h, xa, x2, len, n2, i) ==
    IF i < n2 /\ Evaluated(h)
    THEN LET h1 == WrF(h, x2.re, len - 1 - i, RdF(h, xa.re, 1 + i))
             h2 == WrF(h1, x2.im, len - 1 - i, NegF(RdF(h1, xa.im, 1 + i)))
         IN conjugateLoop(h2, xa, x2, len, n2, i + 1)
    ELSE h

\* Math.min
Min(a, b) == IF a < b THEN a ELSE b

\* createFullSpectrumFromHalfSpectrum once x2 = new ComplexArray(len) is there
fullSpectrum(x2, xa, len, inclNyquist) ==
    LET h1 == copy1(x2.h, xa, 0, x2.r, 0)
        h2 == IF inclNyquist /\ len % 2 = 0 /\ 2 * xa.length > len
              THEN copy1(h1, xa, len \div 2, x2.r, len \div 2)
              ELSE h1
    IN [h |-> conjugateLoop(h2, xa, x2.r, len, Min(xa.length - 1, (len - 1) \div 2), 0),
        r |-> x2.r]

createFullSpectrumFromHalfSpectrum(h, xa, len, inclNyquist) ==
    fullSpectrum(constructByLength(h, len), xa, len, inclNyquist)

\* Mutant: the imaginary part of the transform is returned.
iFftRealHalfSimpleImag(a) ==
    IF a.m.err # NoError THEN a
    ELSE Ret(a.m, RealArray(a.r.im))

\* iFftRealHalfSimple once a = fft(x2, false) is there: return a.re
iFftRealHalfSimpleResult(a) ==
    IF a.m.err # NoError THEN a
    ELSE Ret(a.m, RealArray(a.r.re))

\* iFftRealHalfSimple once x2 is there
iFftRealHalfSimpleFull(m0, x2) ==
    iFftRealHalfSimpleResult(fft([m0 EXCEPT !.h = x2.h], x2.r, FALSE))

iFftRealHalfSimple(m0, xa, len, inclNyquist) ==
    IF xa.length = 0 \/ len <= 0 THEN RetF64(m0, NewF64(m0.h, 0))
    ELSE iFftRealHalfSimpleFull(m0, createFullSpectrumFromHalfSpectrum(m0.h, xa, len, inclNyquist))

\* Mutant: the optimized function is called for every length.
iFftRealHalfAlwaysOpt(m0, xa, len, inclNyquist) == iFftRealHalfOpt(m0, xa, len, inclNyquist)

iFftRealHalf(m0, xa, len, inclNyquist) ==
    IF len % 2 = 0 THEN iFftRealHalfOpt(m0, xa, len, inclNyquist)
    ELSE iFftRealHalfSimple(m0, xa, len, inclNyquist)

\* fftReal once new ComplexArray(x) is there
fftRealOfCopy(m0, c) == fft([m0 EXCEPT !.h = c.h], c.r, TRUE)

fftReal(m0, xa) == fftRealOfCopy(m0, constructByArrayOfNumber(m0.h, xa.re))

\* Mutant: every bin is scaled by 2 / n.
normFactorTwice(i, n) == MulF(2, InvF(n))

\* The factor of bin i of the spectrum of n samples: i == n / 2 is 2 * i = n.
normFactor(i, n) == IF i = 0 \/ 2 * i = n THEN InvF(n) ELSE MulF(2, InvF(n))

RECURSIVE normalizeLoop(_, _, _, _)
normalizeLoop(h, a, n, i) ==
    IF i < a.length /\ Evaluated(h)
    THEN normalizeLoop(mulByReal(h, a, i, normFactor(i, n)), a, n, i + 1)
    ELSE h

\* fftRealSpectrum: the loop that normalizes the amplitudes of a, and return a
normalize(a, n) ==
    IF a.m.err # NoError THEN a
    ELSE Ret([a.m EXCEPT !.h = normalizeLoop(@, a.r, n, 0)], a.r)

\* fftRealSpectrum, odd length: a = a0.subarray(0, Math.floor(n / 2) + 1)
lowerHalf(a0, n) ==
    IF a0.m.err # NoError THEN a0
    ELSE Ret(a0.m, subarray(a0.r, 0, n \div 2 + 1))

\* Mutant: the empty input is passed on to fftRealHalf.
fftRealSpectrumUnchecked(m0, xa, inclNyquist) ==
    normalize(IF xa.length % 2 = 0 THEN fftRealHalf(m0, xa, inclNyquist)
              ELSE lowerHalf(fftReal(m0, xa), xa.length),
              xa.length)

fftRealSpectrum(m0, xa, inclNyquist) ==
    IF xa.length = 0 THEN Throw(m0, "Input array must not be empty.")
    ELSE normalize(IF xa.length % 2 = 0 THEN fftRealHalf(m0, xa, inclNyquist)
                   ELSE lowerHalf(fftReal(m0, xa), xa.length),
                   xa.length)

(***************************************************************************)
(* Dft.ts: the brute-force transform the tests compare fft with, on        *)
(* sequences of <<re, im>> values.                                         *)
(***************************************************************************)
RECURSIVE dftSingleLoop(_, _, _, _, _)
dftSingleLoop(xv, relativeFrequency, direction, acc, p) ==
    IF p < Len(xv)
    THEN LET k == (IF direction THEN -1 ELSE 1) * relativeFrequency * p
             cRe == MulF(1, Cos(k, Len(xv)))
             cIm == MulF(1, Sin(k, Len(xv)))
             re2 == xv[p + 1][1]
             im2 == xv[p + 1][2]
             mRe == SubF(MulF(cRe, re2), MulF(cIm, im2))
             mIm == AddF(MulF(cRe, im2), MulF(cIm, re2))
         IN dftSingleLoop(xv, relativeFrequency, direction,
                          <<AddF(acc[1], mRe), AddF(acc[2], mIm)>>, p + 1)
    ELSE acc

dftSingle(xv, relativeFrequency, direction) ==
    dftSingleLoop(xv, relativeFrequency, direction, <<0, 0>>, 0)

dft(xv, direction) == [f \in 1..Len(xv) |-> dftSingle(xv, f - 1, direction)]

\* Dft.ts works on real samples given as a sequence of numbers.
RECURSIVE dftRealSingleLoop(_, _, _, _)
dftRealSingleLoop(xs, relativeFrequency, acc, p) ==
    IF p < Len(xs)
    THEN LET k == -relativeFrequency * p
             cRe == MulF(xs[p + 1], Cos(k, Len(xs)))
             cIm == MulF(xs[p + 1], Sin(k, Len(xs)))
         IN dftRealSingleLoop(xs, relativeFrequency, <<AddF(acc[1], cRe), AddF(acc[2], cIm)>>,
                              p + 1)
    ELSE acc

dftRealSingle(xs, relativeFrequency) == dftRealSingleLoop(xs, relativeFrequency, <<0, 0>>, 0)

\* Math.ceil(n / 2)
CeilHalf(n) == (n + 1) \div 2

\* The length of the array dftRealSpectrum returns for n samples.
dftRealSpectrumLength(n, inclNyquist) ==
    IF n % 2 = 0 /\ inclNyquist THEN n \div 2 + 1 ELSE CeilHalf(n)

\* c.mulByReal(r) of dftRealSpectrum
dftScaled(c, frequency, n) ==
    LET r == IF frequency = 0 \/ 2 * frequency = n THEN InvF(n) ELSE MulF(2, InvF(n))
    IN <<MulF(c[1], r), MulF(c[2], r)>>

\* dftRealSpectrum for n >= 1 samples (it throws for n = 0)
dftRealSpectrum(xs, inclNyquist) ==
    [f \in 1..dftRealSpectrumLength(Len(xs), inclNyquist) |->
        dftScaled(dftRealSingle(xs, f - 1), f - 1, Len(xs))]

\* synthesizeSinusoidal(a, frequency, c.abs(), c.arg()) on the sequence a of n samples:
\* a[p] += |c| cos(arg c + w p) with w = 2 pi frequency / n.  The sample added is the
\* real part of c e^(i w p), which is c.re cos(w p) - c.im sin(w p); the model computes
\* it in that form, the polar form of c not being a pair of field elements.
synthesizeSinusoidal(a, frequency, c) ==
    [p \in 1..Len(a) |->
        AddF(a[p], SubF(MulF(c[1], Cos(frequency * (p - 1), Len(a))),
                        MulF(c[2], Sin(frequency * (p - 1), Len(a)))))]

RECURSIVE synthesizeLoop(_, _, _, _)
\* The loop of iDftRealSpectrum over the bins of xv whose number is in the set bins.
synthesizeLoop(a, xv, bins, frequency) ==
    IF frequency < Len(xv)
    THEN synthesizeLoop(IF frequency \in bins
                        THEN synthesizeSinusoidal(a, frequency, xv[frequency + 1])
                        ELSE a,
                        xv, bins, frequency + 1)
    ELSE a

\* iDftRealSpectrum(x, len) restricted to the bins in the set bins
iDftRealSpectrum(xv, len, bins) == synthesizeLoop([p \in 1..len |-> 0], xv, bins, 0)

(***************************************************************************)
(* Resampling (WindowFunctions.ts, lines 344-550), on Float64Arrays.  The  *)
(* positions the code computes in floating point are rationals whose       *)
(* denominator is at most twice an array length; they are kept as          *)
(* numerator and denominator, and the code's 1E-9 and 1E-10, far smaller   *)
(* than the distance of two such positions and far larger than a rounding  *)
(* error, decide what happens at a position that is exactly on a limit.    *)
(* Each read ia[p] of a resampling loop is logged as [fn |-> "ia", n |-> p] *)
(* and each pass of an optimized loop as [fn |-> "oa", n |-> op, ip, d].   *)
(***************************************************************************)
\* ArrayUtils.fill(a, value)
fill(h, a, value) ==
    [h EXCEPT ![a.buf] = [k \in 1..Len(@) |->
                             IF k > a.off /\ k <= a.off + a.len THEN value ELSE @[k]]]

\* ArrayUtils.copy(a1, a2)
copy(h, a1, a2) ==
    [h EXCEPT ![a2.buf] = [k \in 1..Len(@) |->
                              IF k > a2.off /\ k <= a2.off + Min(a1.len, a2.len)
                              THEN RdF(h, a1, k - a2.off - 1) ELSE @[k]]]

RECURSIVE sum(_, _, _)
\* ArrayUtils.sum(a), from index i on
sum(h, a, i) == IF i < a.len THEN AddF(RdF(h, a, i), sum(h, a, i + 1)) ELSE 0

\* handleTrivialCases returns true
Handled(h) == [h |-> h, r |-> TRUE]

handleTrivialCases(h, ia, oa, preserveScale, neNe) ==
    IF ia.len = oa.len THEN Handled(copy(h, ia, oa))
    ELSE IF oa.len = 0 THEN Handled(h)
    ELSE IF ia.len = 0 THEN Handled(fill(h, oa, NaN))
    ELSE IF ia.len = 1 THEN Handled(fill(h, oa, RdF(h, ia, 0)))
    ELSE IF oa.len = 1
         THEN Handled(WrF(h, oa, 0,
                          IF preserveScale THEN RdF(h, ia, 0)
                          ELSE IF neNe THEN RdF(h, ia, ia.len \div 2)
                          ELSE DivF(sum(h, ia, 0), ia.len)))
    ELSE [h |-> h, r |-> FALSE]

\* The number of input elements an optimized loop steps over when d >= od.
inputStep(d, id, od) == IF d >= od THEN (IF od >= id THEN 1 ELSE d \div od) ELSE 0

\* One read of ia[p], and its log entry.
ReadLogged(m, p) == [m EXCEPT !.log = Append(@, [fn |-> "ia", n |-> p])]

\* One pass of an optimized loop, and its log entry.
PassLogged(m, opos, ip, d) ==
    [m EXCEPT !.log = Append(@, [fn |-> "oa", n |-> opos, ip |-> ip, d |-> d])]

RECURSIVE extraValuesLoop(_, _, _, _)
\* while (op < oLen) oa[op++] = extraValues
extraValuesLoop(h, oa, opos, extraValues) ==
    IF opos < oa.len /\ Evaluated(h)
    THEN extraValuesLoop(WrF(h, oa, opos, extraValues), oa, opos + 1, extraValues)
    ELSE h

\* Math.trunc(num / den + 1 - 1E-9) for num / den >= 0
TruncPlusOneMinusEps(num, den) == IF num % den = 0 THEN num \div den ELSE num \div den + 1

\* Math.trunc(num / den + 1 + 1E-9) for num / den >= 0
TruncPlusOnePlusEps(num, den) == num \div den + 1

RECURSIVE resampleNearestNeighborLoop(_, _, _, _, _, _, _, _, _)
resampleNearestNeighborLoop(m, ia, oa, id, od, oLen1, ip, opos, d) ==
    IF opos < oLen1 /\ Evaluated(m.h)
    THEN resampleNearestNeighborLoop(
             [ReadLogged(PassLogged(m, opos, ip + inputStep(d, id, od),
                                    d - inputStep(d, id, od) * od),
                         ip + inputStep(d, id, od))
                 EXCEPT !.h = WrF(@, oa, opos, RdF(@, ia, ip + inputStep(d, id, od)))],
             ia, oa, id, od, oLen1,
             ip + inputStep(d, id, od), opos + 1, d - inputStep(d, id, od) * od + id)
    ELSE m

\* resampleNearestNeighbor after its first loop
resampleExtra(m, oa, oLen1, extraValues) ==
    [m EXCEPT !.h = extraValuesLoop(@, oa, oLen1, extraValues)]

\* Mutant: the position delta starts at 0.
nearestNeighborStartZero(iLen, oLen, preserveScale) == 0

\* let d = preserveScale ? od / 2 : id / 2
nearestNeighborStart(iLen, oLen, preserveScale) == IF preserveScale THEN oLen ELSE iLen

\* resampleNearestNeighbor once the case is known not to be trivial
resampleNearestNeighborMain(m, ia, oa, preserveScale, extraValues, oLen1) ==
    resampleExtra(
        resampleNearestNeighborLoop(m, ia, oa, 2 * ia.len, 2 * oa.len, oLen1, 0, 0,
                                    nearestNeighborStart(ia.len, oa.len, preserveScale)),
        oa, oLen1, extraValues)

\* resampleNearestNeighbor once handleTrivialCases has returned t
resampleNearestNeighborRest(m, t, ia, oa, preserveScale, extraValues) ==
    IF t.r THEN [m EXCEPT !.h = t.h]
    ELSE resampleNearestNeighborMain(
             m, ia, oa, preserveScale, extraValues,
             IF preserveScale
             THEN TruncPlusOneMinusEps((2 * ia.len - 1) * oa.len, 2 * ia.len)
             ELSE oa.len)

resampleNearestNeighbor(m, ia, oa, preserveScale, extraValues) ==
    resampleNearestNeighborRest(m, handleTrivialCases(m.h, ia, oa, preserveScale, TRUE),
                                ia, oa, preserveScale, extraValues)

\* Math.round(num / den + 1E-9): the nearest integer, the upper one of two
RoundPlusEps(num, den) == (2 * num + den) \div (2 * den)

\* interpolateNearestNeighbor(a, pos), pos = num / den, for a.length > 0
interpolateNearestNeighborIndex(a, num, den) ==
    IF RoundPlusEps(num, den) > a.len - 1 THEN a.len - 1
    ELSE IF RoundPlusEps(num, den) < 0 THEN 0
    ELSE RoundPlusEps(num, den)

\* The input position of output position op in resampleNearestNeighborRef, as <<num, den>>
nearestNeighborPosition(iLen, oLen, preserveScale, opos) ==
    IF preserveScale THEN <<opos * iLen, oLen>>
    ELSE <<(2 * opos + 1) * iLen - oLen, 2 * oLen>>

\* ip <= ia.length - 0.5 - 1E-9
nearestNeighborInside(pos, iLen) == 2 * pos[1] < (2 * iLen - 1) * pos[2]

\* The body of the loop of resampleNearestNeighborRef, the position being pos
nearestNeighborRefStep(m, ia, oa, extraValues, opos, pos) ==
    IF nearestNeighborInside(pos, ia.len)
    THEN [ReadLogged(m, interpolateNearestNeighborIndex(ia, pos[1], pos[2]))
             EXCEPT !.h = WrF(@, oa, opos,
                              RdF(@, ia, interpolateNearestNeighborIndex(ia, pos[1], pos[2])))]
    ELSE [m EXCEPT !.h = WrF(@, oa, opos, extraValues)]

RECURSIVE resampleNearestNeighborRefLoop(_, _, _, _, _, _)
resampleNearestNeighborRefLoop(m, ia, oa, preserveScale, extraValues, opos) ==
    IF opos < oa.len /\ Evaluated(m.h)
    THEN resampleNearestNeighborRefLoop(
             nearestNeighborRefStep(m, ia, oa, extraValues, opos,
                                    nearestNeighborPosition(ia.len, oa.len, preserveScale, opos)),
             ia, oa, preserveScale, extraValues, opos + 1)
    ELSE m

\* resampleNearestNeighborRef once handleTrivialCases has returned t
resampleNearestNeighborRefRest(m, t, ia, oa, preserveScale, extraValues) ==
    IF t.r THEN [m EXCEPT !.h = t.h]
    ELSE resampleNearestNeighborRefLoop(m, ia, oa, preserveScale, extraValues, 0)

resampleNearestNeighborRef(m, ia, oa, preserveScale, extraValues) ==
    resampleNearestNeighborRefRest(m, handleTrivialCases(m.h, ia, oa, preserveScale, TRUE),
                                   ia, oa, preserveScale, extraValues)

\* Mutant: both samples weigh one half.
linearWeightHalf(d, od) == DivF(Real(1), Real(2))

\* d / od, the weight of ia[ip + 1]
linearWeight(d, od) == DivF(Real(d), Real(od))

\* The value x of one pass of the loop of resampleLinear
linearSample(h, ia, ip, d, od) ==
    IF d = 0 THEN RdF(h, ia, ip)
    ELSE AddF(MulF(RdF(h, ia, ip), DivF(Real(od - d), Real(od))),
              MulF(RdF(h, ia, ip + 1), linearWeight(d, od)))

\* The reads of one pass of the loop of resampleLinear
linearReads(m, ip, d) == IF d = 0 THEN ReadLogged(m, ip) ELSE ReadLogged(ReadLogged(m, ip), ip + 1)

\* One pass of the loop of resampleLinear, ip and d being stepped
linearPass(m, ia, oa, od, ip, opos, d) ==
    [linearReads(PassLogged(m, opos, ip, d), ip, d)
        EXCEPT !.h = WrF(@, oa, opos, linearSample(@, ia, ip, d, od))]

RECURSIVE resampleLinearLoop(_, _, _, _, _, _, _, _, _)
resampleLinearLoop(m, ia, oa, id, od, oLen1, ip, opos, d) ==
    IF opos < oLen1 /\ Evaluated(m.h)
    THEN resampleLinearLoop(
             linearPass(m, ia, oa, od, ip + inputStep(d, id, od), opos,
                        d - inputStep(d, id, od) * od),
             ia, oa, id, od, oLen1,
             ip + inputStep(d, id, od), opos + 1, d - inputStep(d, id, od) * od + id)
    ELSE m

\* resampleLinear once the case is known not to be trivial
resampleLinearMain(m, ia, oa, id, od, extraValues, oLen1) ==
    resampleExtra(resampleLinearLoop(m, ia, oa, id, od, oLen1, 0, 0, 0),
                  oa, oLen1, extraValues)

\* resampleLinear once handleTrivialCases has returned t
resampleLinearRest(m, t, ia, oa, preserveScale, extraValues) ==
    IF t.r THEN [m EXCEPT !.h = t.h]
    ELSE IF preserveScale
         THEN resampleLinearMain(m, ia, oa, ia.len, oa.len, extraValues,
                                 TruncPlusOnePlusEps((ia.len - 1) * oa.len, ia.len))
         ELSE resampleLinearMain(m, ia, oa, ia.len - 1, oa.len - 1, extraValues, oa.len)

resampleLinear(m, ia, oa, preserveScale, extraValues) ==
    resampleLinearRest(m, handleTrivialCases(m.h, ia, oa, preserveScale, FALSE),
                       ia, oa, preserveScale, extraValues)

\* The input position of output position op in resampleLinearRef, as <<num, den>>; a
\* position within 1E-10 of an integer is that integer
linearPosition(iLen, oLen, preserveScale, opos) ==
    IF preserveScale THEN <<opos * iLen, oLen>> ELSE <<opos * (iLen - 1), oLen - 1>>

\* interpolateLinear(a, pos), pos = num / den, with p1 = Math.floor(pos)
interpolateLinearAt(h, a, p1, num, den) ==
    IF p1 < 0 \/ (IF num % den = 0 THEN p1 ELSE p1 + 1) >= a.len THEN NaN
    ELSE IF num % den = 0 THEN RdF(h, a, p1)
    ELSE AddF(RdF(h, a, p1),
              MulF(DivF(Real(num % den), Real(den)), SubF(RdF(h, a, p1 + 1), RdF(h, a, p1))))

interpolateLinear(h, a, num, den) == interpolateLinearAt(h, a, num \div den, num, den)

\* The reads of interpolateLinear
interpolateLinearReads(m, a, p1, num, den) ==
    IF p1 < 0 \/ (IF num % den = 0 THEN p1 ELSE p1 + 1) >= a.len THEN m
    ELSE IF num % den = 0 THEN ReadLogged(m, p1)
    ELSE ReadLogged(ReadLogged(m, p1), p1 + 1)

\* The body of the loop of resampleLinearRef, the position being pos
linearRefStep(m, ia, oa, extraValues, opos, pos) ==
    IF pos[1] <= (ia.len - 1) * pos[2]
    THEN [interpolateLinearReads(m, ia, pos[1] \div pos[2], pos[1], pos[2])
             EXCEPT !.h = WrF(@, oa, opos, interpolateLinear(@, ia, pos[1], pos[2]))]
    ELSE [m EXCEPT !.h = WrF(@, oa, opos, extraValues)]

RECURSIVE resampleLinearRefLoop(_, _, _, _, _, _)
resampleLinearRefLoop(m, ia, oa, preserveScale, extraValues, opos) ==
    IF opos < oa.len /\ Evaluated(m.h)
    THEN resampleLinearRefLoop(
             linearRefStep(m, ia, oa, extraValues, opos,
                           linearPosition(ia.len, oa.len, preserveScale, opos)),
             ia, oa, preserveScale, extraValues, opos + 1)
    ELSE m

\* resampleLinearRef once handleTrivialCases has returned t
resampleLinearRefRest(m, t, ia, oa, preserveScale, extraValues) ==
    IF t.r THEN [m EXCEPT !.h = t.h]
    ELSE resampleLinearRefLoop(m, ia, oa, preserveScale, extraValues, 0)

resampleLinearRef(m, ia, oa, preserveScale, extraValues) ==
    resampleLinearRefRest(m, handleTrivialCases(m.h, ia, oa, preserveScale, FALSE),
                          ia, oa, preserveScale, extraValues)

(***************************************************************************)
(* Garbage collection between calls: the buffers reachable from            *)
(* emptyFloat64Array, the cache, x and y are kept, in that order.          *)
(***************************************************************************)
RECURSIVE CacheBufs(_, _)
CacheBufs(c, k) ==
    IF k > 31 THEN <<>>
    ELSE (IF k \in DOMAIN c THEN <<c[k].re.buf, c[k].im.buf>> ELSE <<>>) \o CacheBufs(c, k + 1)

RECURSIVE Dedup(_, _)
Dedup(s, seen) ==
    IF s = <<>> THEN <<>>
    ELSE IF Head(s) \in seen THEN Dedup(Tail(s), seen)
    ELSE <<Head(s)>> \o Dedup(Tail(s), seen \cup {Head(s)})

LiveBufs(c, xa, ya) ==
    Dedup(<<EmptyBuf>> \o CacheBufs(c, 0) \o <<xa.re.buf, xa.im.buf, ya.re.buf, ya.im.buf>>, {0})

MoveF64(live, f) ==
    IF f.buf = 0 THEN f ELSE [f EXCEPT !.buf = CHOOSE i \in 1..Len(live) : live[i] = f.buf]

MoveArray(live, a) == [a EXCEPT !.re = MoveF64(live, a.re), !.im = MoveF64(live, a.im)]

\* The state after a call that left machine m and returned ya.
Collect(m, xa, ya) ==
    LET live == LiveBufs(m.cache, xa, ya)
    IN [heap |-> [i \in 1..Len(live) |-> m.h[live[i]]],
        cache |-> [k \in DOMAIN m.cache |-> MoveArray(live, m.cache[k])],
        x |-> MoveArray(live, xa),
        y |-> MoveArray(live, ya)]

(***************************************************************************)
(* The state machine: a caller that builds an argument, calls a function   *)
(* of Fft.ts on it, may write into the result, and drops both.             *)
(***************************************************************************)
NoArray == [re |-> NoF64, im |-> NoF64, length |-> 0]
NoArg == [vals |-> <<>>, flag |-> TRUE, len |-> 0, prev |-> <<>>]

\* The argument arrays of length n the caller builds.
InputsOfLength(n) ==
    {[i \in 1..n |-> IF i \in P THEN ElemVals[Cardinality({j \in P : j <= i})] ELSE <<0, 0>>] :
        P \in {Q \in SUBSET (1..n) : Cardinality(Q) <= MaxNonZero}}

Inputs == UNION {InputsOfLength(n) : n \in 0..MaxLen}

Machine == [h |-> heap, cache |-> cache, log |-> <<>>, err |-> NoError]

Init ==
    /\ heap = <<<<>>>>
    /\ cache = <<>>
    /\ x = NoArray
    /\ y = NoArray
    /\ op = "idle"
    /\ calls = <<>>
    /\ err = NoError
    /\ arg = NoArg
    /\ worker = FALSE
    /\ taskActive = FALSE
    /\ activePromise = 0
    /\ promises = <<>>
    /\ toWorker = <<>>
    /\ toMain = <<>>
    /\ console = <<>>

\* After the call: the collected heap, the result, the log and the error.
Returned(name, res, xa, a) ==
    LET c == Collect(res.m, xa, res.r)
    IN /\ heap' = c.heap
       /\ cache' = c.cache
       /\ x' = c.x
       /\ y' = c.y
       /\ op' = name
       /\ calls' = res.m.log
       /\ err' = res.m.err
       /\ arg' = a
       /\ UNCHANGED taskVars

\* x = new ComplexArray([...])
NewInput(s) ==
    /\ op = "idle"
    /\ LET a == IF Len(s) = 0 THEN constructByLength(heap, 0)
                ELSE constructByArrayOfComplex(heap, s)
       IN Returned("new", Ret([Machine EXCEPT !.h = a.h], NoArray), a.r, NoArg)

\* y = fft(x, direction)
CallFft(direction) ==
    /\ op = "new"
    /\ Returned("fft", fft(Machine, x, direction), x,
                [vals |-> Vals(heap, x), flag |-> direction, len |-> 0, prev |-> <<>>])

\* y = fft(y, !direction): the caller transforms the result back (checkFftResult of TestFft.ts)
CallFftBack ==
    /\ op = "fft"
    /\ err = NoError
    /\ Returned("fftBack", fft(Machine, y, ~arg.flag), y,
                [vals |-> Vals(heap, y), flag |-> ~arg.flag, len |-> 0, prev |-> arg.vals])

\* The real sample arrays of length n the caller builds.
SamplesOfLength(n) ==
    {[i \in 1..n |-> IF i \in P THEN ElemVals[Cardinality({j \in P : j <= i})][1] ELSE 0] :
        P \in {Q \in SUBSET (1..n) : Cardinality(Q) <= MaxNonZero}}

Samples == UNION {SamplesOfLength(n) : n \in 0..MaxLen}

\* x = new Float64Array([...])
NewSamples(s) ==
    /\ op = "idle"
    /\ LET a == NewF64From(heap, s)
       IN Returned("newReal", Ret([Machine EXCEPT !.h = a.h], NoArray), RealArray(a.r), NoArg)

\* y = fftRealHalf(x, inclNyquist)
CallFftRealHalf(inclNyquist) ==
    /\ op = "newReal"
    /\ Returned("fftRealHalf", fftRealHalf(Machine, x, inclNyquist), x,
                [vals |-> Vals(heap, x), flag |-> inclNyquist, len |-> 0, prev |-> <<>>])

\* y = iFftRealHalfOpt(x, len, inclNyquist)
CallIFftRealHalfOpt(len, inclNyquist) ==
    /\ op = "new"
    /\ Returned("iFftRealHalfOpt", iFftRealHalfOpt(Machine, x, len, inclNyquist), x,
                [vals |-> Vals(heap, x), flag |-> inclNyquist, len |-> len, prev |-> <<>>])

\* y = fftRealSpectrum(x, inclNyquist)
CallFftRealSpectrum(inclNyquist) ==
    /\ op = "newReal"
    /\ Returned("fftRealSpectrum", fftRealSpectrum(Machine, x, inclNyquist), x,
                [vals |-> Vals(heap, x), flag |-> inclNyquist, len |-> 0, prev |-> <<>>])

\* y = iFftRealHalfSimple(x, len, inclNyquist)
CallIFftRealHalfSimple(len, inclNyquist) ==
    /\ op = "new"
    /\ Returned("iFftRealHalfSimple", iFftRealHalfSimple(Machine, x, len, inclNyquist), x,
                [vals |-> Vals(heap, x), flag |-> inclNyquist, len |-> len, prev |-> <<>>])

\* y = iFftRealHalf(fftRealSpectrum(x, true), x.length, true)
CallIFftRealHalfBack ==
    /\ op = "fftRealSpectrum"
    /\ err = NoError
    /\ arg.flag
    /\ Returned("iFftRealHalfBack", iFftRealHalf(Machine, y, Len(arg.vals), TRUE), y,
                [vals |-> Vals(heap, y), flag |-> TRUE, len |-> Len(arg.vals),
                 prev |-> arg.vals])

\* y = fftShift(x)
CallFftShift ==
    /\ op = "new"
    /\ Returned("fftShift", fftShift(Machine, x), x,
                [vals |-> Vals(heap, x), flag |-> TRUE, len |-> 0, prev |-> <<>>])

\* x = ComplexArray.fromPolar(absArray, argArray), the arrays being 1, 2, .. n and
\* turns, turns + 1, .. quarter turns
NewFromPolar(n, turns) ==
    /\ op = "idle"
    /\ LET a == fromPolar(heap, [i \in 1..n |-> i], [i \in 1..n |-> turns + i - 1])
       IN Returned("new", Ret([Machine EXCEPT !.h = a.h], NoArray), a.r, NoArg)

\* The arguments of slice and subarray, and the number of elements written since.
RangeArg(begin, end) ==
    [vals |-> Vals(heap, x), flag |-> TRUE, len |-> 0, prev |-> <<>>,
     begin |-> begin, end |-> end, writes |-> 0]

\* y = x.slice(begin, end)
CallSlice(begin, end) ==
    /\ op = "new"
    /\ LET a == slice(heap, x, begin, end)
       IN Returned("slice", Ret([Machine EXCEPT !.h = a.h], a.r), x, RangeArg(begin, end))

\* y = x.subarray(begin, end)
CallSubarray(begin, end) ==
    /\ op = "new"
    /\ Returned("subarray", Ret(Machine, subarray(x, begin, end)), x, RangeArg(begin, end))

\* The element the caller writes, as <<re, im>>.
Written == <<7, 9>>

\* x.setReIm(i, 7, 9) or y.setReIm(i, 7, 9), by the caller, y being a slice or a view of x
CallSetReIm(target, i) ==
    /\ op \in {"slice", "subarray"}
    /\ arg.writes < MaxWrites
    /\ heap' = setReIm(heap, IF target = "x" THEN x ELSE y, i, Written[1], Written[2])
    /\ arg' = [arg EXCEPT !.writes = @ + 1]
    /\ UNCHANGED <<taskVars, cache, x, y, op, calls, err>>

\* y.re[i] = v or y.im[i] = v, by the caller, after a call that returned
WriteResult(part, i, v) ==
    /\ op = "fft"
    /\ err = NoError
    /\ i < y.length
    /\ heap' = WrF(heap, IF part = "re" THEN y.re ELSE y.im, i, v)
    /\ op' = "write"
    /\ UNCHANGED <<taskVars, cache, x, y, calls, err, arg>>

\* The caller drops x and y.
Release ==
    /\ op \notin {"idle", "new", "newReal"}
    /\ Returned("idle", Ret(Machine, NoArray), NoArray, NoArg)

Next ==
    \/ \E s \in Inputs : NewInput(s)
    \/ \E d \in BOOLEAN : CallFft(d)
    \/ CallFftBack
    \/ \E part \in {"re", "im"}, i \in 0..(MaxLen - 1) : WriteResult(part, i, NaN)
    \/ Release

Spec == Init /\ [][Next]_vars

\* The functions for real signals.
NextReal ==
    \/ \E s \in Inputs : NewInput(s)
    \/ \E s \in Samples : NewSamples(s)
    \/ \E f \in BOOLEAN : CallFftRealHalf(f)
    \/ \E f \in BOOLEAN : CallFftRealSpectrum(f)
    \/ \E len \in 0..MaxLen, f \in BOOLEAN : CallIFftRealHalfSimple(len, f)
    \/ CallIFftRealHalfBack
    \/ \E len \in -1..MaxLen, f \in BOOLEAN : CallIFftRealHalfOpt(len, f)
    \/ Release

SpecReal == Init /\ [][NextReal]_vars

\* The complex numbers the caller divides, as <<re, im>>.
Operands == {<<0, 0>>, <<1, 0>>, <<2, 1>>, <<3, -1>>}

\* The arguments of an element operation: the index, and two complex numbers.
ElemArg(i, c1, c2) ==
    [vals |-> Vals(heap, x), flag |-> TRUE, len |-> 0, prev |-> <<>>,
     i |-> i, c1 |-> <<Real(c1[1]), Real(c1[2])>>, c2 |-> <<Real(c2[1]), Real(c2[2])>>]

\* x.setDiv(i, re1, im1, re2, im2)
CallSetDiv(i, c1, c2) ==
    /\ op = "new"
    /\ heap' = setDiv(heap, x, i, Real(c1[1]), Real(c1[2]), Real(c2[1]), Real(c2[2]))
    /\ op' = "setDiv"
    /\ arg' = ElemArg(i, c1, c2)
    /\ UNCHANGED <<taskVars, cache, x, y, calls, err>>

\* x.divBy(i, new Complex(re2, im2))
CallDivBy(i, c2) ==
    /\ op = "new"
    /\ i < x.length
    /\ heap' = divBy(heap, x, i, <<Real(c2[1]), Real(c2[2])>>)
    /\ op' = "divBy"
    /\ arg' = ElemArg(i, Vals(heap, x)[i + 1], c2)
    /\ UNCHANGED <<taskVars, cache, x, y, calls, err>>

\* The arrays of distinct elements the caller builds to move elements about.
ArrayInputs == {[i \in 1..n |-> <<i, -i>>] : n \in 0..MaxLen}

\* The operations that make a ComplexArray from another.
NextArray ==
    \/ \E s \in ArrayInputs : NewInput(s)
    \/ \E n \in 1..MaxLen : NewFromPolar(n, 1)
    \/ CallFftShift
    \/ \E begin, end \in -1..MaxLen : CallSlice(begin, end)
    \/ \E begin, end \in -1..MaxLen : CallSubarray(begin, end)
    \/ \E target \in {"x", "y"}, i \in 0..(MaxLen - 1) : CallSetReIm(target, i)
    \/ Release

SpecArray == Init /\ [][NextArray]_vars

\* y = new ComplexArray(s), a second array
NewSecond(s) ==
    /\ op = "new"
    /\ LET a == IF Len(s) = 0 THEN constructByLength(heap, 0)
                ELSE constructByArrayOfComplex(heap, s)
       IN Returned("new2", Ret([Machine EXCEPT !.h = a.h], a.r), x, NoArg)

\* x.mulByArray(y), or x.mulByArray(x) when self
CallMulByArray(self) ==
    /\ op = "new2"
    /\ IF mulByArrayValid(x, IF self THEN x ELSE y)
       THEN /\ heap' = mulByArray(heap, x, IF self THEN x ELSE y)
            /\ err' = NoError
       ELSE /\ heap' = heap
            /\ err' = "Array sizes are not equal."
    /\ op' = "mulByArray"
    /\ arg' = [vals |-> Vals(heap, x), flag |-> self, len |-> 0,
               prev |-> Vals(heap, IF self THEN x ELSE y)]
    /\ UNCHANGED <<taskVars, cache, x, y, calls>>

(***************************************************************************)
(* fftCooleyTukey step by step: the sine table and the bit-reversed copy,  *)
(* then one action for each pass of the innermost loop of                  *)
(* applyButterflies.  The position of the three loops is in arg (mMax, m,  *)
(* i), with the pass taken last (last), the indices the passes of the      *)
(* current stage have touched (done), whether the last pass touched only   *)
(* untouched ones (fresh), whether it ended its stage (stageEnd) and the   *)
(* widths of the stages begun (widths).                                    *)
(***************************************************************************)
\* The argument arrays of the radix-2 steps: 2^k distinct elements.
Offsets == {0, 10, 20}
Pow2Inputs == {[i \in 1..(2^k) |-> <<i + b, -i>>] : k \in 0..MaxLog2, b \in Offsets}

\* let mMax = 1, m = 0, i = m: the loops before their first pass
LoopStart ==
    [vals |-> Vals(heap, x), flag |-> TRUE, len |-> 0, prev |-> <<>>,
     mMax |-> 1, m |-> 0, i |-> 0,
     last |-> [mMax |-> 0, m |-> 0, i |-> 0, j |-> 0, wIndex |-> 0],
     done |-> {}, fresh |-> TRUE, stageEnd |-> TRUE, widths |-> <<>>]

\* fftCooleyTukey up to its call of applyButterflies, t being the sine table
CopyBitReversedWithTable(t) ==
    Returned("copyBitReversed",
             Ret([t.m EXCEPT !.h = copyBitReversed(t.m.h, x).h], copyBitReversed(t.m.h, x).r),
             x, LoopStart)

\* sineTable = getCachedCooleyTukeySineTable(n); y = copyBitReversed(x)
CallCopyBitReversed ==
    /\ op = "new"
    /\ CopyBitReversedWithTable(getCachedCooleyTukeySineTable(Machine, x.length))

\* incrementBitReversed(i, x.length)
CallIncrementBitReversed(i) ==
    /\ op = "new"
    /\ i < x.length
    /\ op' = "incrementBitReversed"
    /\ arg' = [vals |-> Vals(heap, x), flag |-> TRUE, len |-> incrementBitReversed(i, x.length),
               prev |-> <<>>, i |-> i]
    /\ UNCHANGED <<taskVars, heap, cache, x, y, calls, err>>

\* The pass at the position a of the loops.
PassAt(a, n) ==
    [mMax |-> a.mMax, m |-> a.m, i |-> a.i, j |-> a.i + a.mMax,
     wIndex |-> wIndex(n, a.mMax, a.m)]

\* The indices touched in the stage of the pass at position a, before that pass.
DoneBefore(a) == IF a.stageEnd THEN {} ELSE a.done

\* The position of the loops after the pass at position a: i += step, else m++, else mMax *= 2
Advanced(a, n) ==
    IF a.i + a.mMax * 2 < n THEN [a EXCEPT !.i = @ + a.mMax * 2, !.stageEnd = FALSE]
    ELSE IF a.m + 1 < a.mMax THEN [a EXCEPT !.m = @ + 1, !.i = a.m + 1, !.stageEnd = FALSE]
    ELSE [a EXCEPT !.mMax = @ * 2, !.m = 0, !.i = 0, !.stageEnd = TRUE]

\* The record of the pass at position a.
PassRecorded(a, n) ==
    [a EXCEPT !.last = PassAt(a, n),
              !.done = DoneBefore(a) \cup {a.i, a.i + a.mMax},
              !.fresh = /\ a.i # a.i + a.mMax
                        /\ DoneBefore(a) \cap {a.i, a.i + a.mMax} = {},
              !.widths = IF a.m = 0 /\ a.i = 0 THEN Append(@, a.mMax) ELSE @]

\* The sine table of fftCooleyTukey for an array of n elements.
CachedTable(n) == cache[cacheIndex(n)]

\* One pass of the innermost loop of applyButterflies(y, sineTable)
Butterfly ==
    /\ op \in {"copyBitReversed", "butterfly"}
    /\ arg.mMax < y.length
    /\ heap' = butterfly(heap, y, arg.i, arg.i + arg.mMax,
                         RdF(heap, CachedTable(y.length).re, wIndex(y.length, arg.mMax, arg.m)),
                         RdF(heap, CachedTable(y.length).im, wIndex(y.length, arg.mMax, arg.m)))
    /\ op' = "butterfly"
    /\ arg' = Advanced(PassRecorded(arg, y.length), y.length)
    /\ UNCHANGED <<taskVars, cache, x, y, calls, err>>

\* The steps of the radix-2 transform.
NextRadix2 ==
    \/ \E s \in Pow2Inputs : NewInput(s)
    \/ CallCopyBitReversed
    \/ \E i \in 0..(2^MaxLog2 - 1) : CallIncrementBitReversed(i)
    \/ Butterfly
    \/ Release

SpecRadix2 == Init /\ [][NextRadix2]_vars

\* The input arrays of the resampling calls: elements 10, 20, 30, ..
RampSamples == {[i \in 1..n |-> 10 * i] : n \in 0..MaxResample}

\* The values for the extra entries at the end of an output array.
ExtraValues == {0, -99}

\* The arguments of a resampling call.
ResampleArg(oLen, preserveScale, extraValues) ==
    [vals |-> Vals(heap, x), flag |-> preserveScale, len |-> oLen, prev |-> <<>>,
     extra |-> Real(extraValues)]

\* oa = new Float64Array(oLen), the output array; the call returns nothing, y is oa
WithOutput(m, oa) == [m |-> [m EXCEPT !.h = oa.h], oa |-> oa.r]

\* The call has run and left machine m.
Resampled(name, m, oa, a) == Returned(name, Ret(m, RealArray(oa)), x, a)

\* resampleNearestNeighbor(x, y, preserveScale, extraValues), y a new Float64Array(oLen)
ResampleNearestNeighborInto(c, preserveScale, extraValues) ==
    Resampled("resampleNearestNeighbor",
              resampleNearestNeighbor(c.m, x.re, c.oa, preserveScale, Real(extraValues)),
              c.oa, ResampleArg(c.oa.len, preserveScale, extraValues))

CallResampleNearestNeighbor(oLen, preserveScale, extraValues) ==
    /\ op = "newReal"
    /\ ResampleNearestNeighborInto(WithOutput(Machine, NewF64(heap, oLen)),
                                   preserveScale, extraValues)

\* resampleLinear(x, y, preserveScale, extraValues), y a new Float64Array(oLen)
ResampleLinearInto(c, preserveScale, extraValues) ==
    Resampled("resampleLinear",
              resampleLinear(c.m, x.re, c.oa, preserveScale, Real(extraValues)),
              c.oa, ResampleArg(c.oa.len, preserveScale, extraValues))

CallResampleLinear(oLen, preserveScale, extraValues) ==
    /\ op = "newReal"
    /\ ResampleLinearInto(WithOutput(Machine, NewF64(heap, oLen)), preserveScale, extraValues)

\* The calls that resample an array.
NextResample ==
    \/ \E s \in RampSamples : NewSamples(s)
    \/ \E oLen \in 0..MaxResample, ps \in BOOLEAN, ev \in ExtraValues :
           CallResampleNearestNeighbor(oLen, ps, ev)
    \/ \E oLen \in 0..MaxResample, ps \in BOOLEAN, ev \in ExtraValues :
           CallResampleLinear(oLen, ps, ev)
    \/ Release

SpecResample == Init /\ [][NextResample]_vars

\* The operations on the elements of one ComplexArray, and on two of them.
NextElem ==
    \/ \E s \in ArrayInputs : NewInput(s)
    \/ \E i \in 0..(MaxLen - 1), c1, c2 \in Operands : CallSetDiv(i, c1, c2)
    \/ \E i \in 0..(MaxLen - 1), c2 \in Operands : CallDivBy(i, c2)
    \/ \E s \in ArrayInputs : NewSecond(s)
    \/ \E self \in BOOLEAN : CallMulByArray(self)
    \/ Release

SpecElem == Init /\ [][NextElem]_vars

(***************************************************************************)
(* BackgroundTaskMgr.ts: the main thread calls execTask, the worker thread *)
(* answers each request with one response, and the main thread handles the *)
(* messages of the worker one at a time.  Each thread runs one handler to  *)
(* its end before the next (the event loop), so each handler is one        *)
(* action.  A promise is [state, msg]; settling a settled promise does     *)
(* nothing.  Besides its responses the worker may post a message of its    *)
(* own (a task function has self at hand): the handler of the main thread  *)
(* has a branch for a message that arrives while no task is active.        *)
(***************************************************************************)
TaskIds == {"scanPitch", "other"}

\* The task functions registered with registerTaskFunction.
taskFunctions == {"scanPitch"}

Pending == [state |-> "pending", msg |-> ""]

\* Mutant: the promise is resolved whatever the response says.
settledResolved(ps, p, response) ==
    IF p \in 1..Len(ps) /\ ps[p].state = "pending"
    THEN [ps EXCEPT ![p] = [state |-> "resolved", msg |-> "result"]]
    ELSE ps

\* activePromiseReject(new Error(..)) or activePromiseResolve(response.result)
settled(ps, p, response) ==
    IF p \in 1..Len(ps) /\ ps[p].state = "pending"
    THEN [ps EXCEPT ![p] = IF ~response.ok
                           THEN [state |-> "rejected", msg |-> "Error in background task."]
                           ELSE [state |-> "resolved", msg |-> "result"]]
    ELSE ps

\* The promise execTask returns when its executor has thrown.
Thrown == [state |-> "rejected", msg |-> "A background task is already active."]

\* execTask(taskId, parms)
ExecTask(taskId) ==
    /\ Len(promises) < MaxTasks
    /\ IF taskActive
       THEN /\ promises' = Append(promises, Thrown)
            /\ UNCHANGED <<worker, taskActive, activePromise, toWorker>>
       ELSE /\ promises' = Append(promises, Pending)
            /\ worker' = TRUE
            /\ taskActive' = TRUE
            /\ activePromise' = Len(promises) + 1
            /\ toWorker' = Append(toWorker, [taskId |-> taskId])
    /\ UNCHANGED <<heap, cache, x, y, op, calls, err, arg, toMain, console>>

\* processRequest(request), ok telling whether the task function returns
processRequest(request, ok) ==
    IF request.taskId \notin taskFunctions THEN [ok |-> FALSE]
    ELSE [ok |-> ok]

\* The worker thread receives a request and posts the response.
MainToWorkerMessageEventHandler(ok) ==
    /\ toWorker # <<>>
    /\ toWorker' = Tail(toWorker)
    /\ toMain' = Append(toMain, processRequest(Head(toWorker), ok))
    /\ UNCHANGED <<heap, cache, x, y, op, calls, err, arg,
                   worker, taskActive, activePromise, promises, console>>

\* The worker thread posts a message that answers no request.
WorkerPosts(ok) ==
    /\ worker
    /\ Len(console) < MaxIgnored
    /\ Len(toMain) < 2
    /\ toMain' = Append(toMain, [ok |-> ok])
    /\ UNCHANGED <<heap, cache, x, y, op, calls, err, arg,
                   worker, taskActive, activePromise, promises, toWorker, console>>

\* The main thread receives a message of the worker.
WorkerToMainMessageEventHandler ==
    /\ toMain # <<>>
    /\ toMain' = Tail(toMain)
    /\ IF ~taskActive
       THEN /\ console' = Append(console, "Worker message ignored because no task is active.")
            /\ UNCHANGED <<taskActive, promises>>
       ELSE /\ taskActive' = FALSE
            /\ promises' = settled(promises, activePromise, Head(toMain))
            /\ UNCHANGED console
    /\ UNCHANGED <<heap, cache, x, y, op, calls, err, arg, worker, activePromise, toWorker>>

NextTask ==
    \/ \E taskId \in TaskIds : ExecTask(taskId)
    \/ \E ok \in BOOLEAN : MainToWorkerMessageEventHandler(ok)
    \/ \E ok \in BOOLEAN : WorkerPosts(ok)
    \/ WorkerToMainMessageEventHandler

SpecTask == Init /\ [][NextTask]_vars

\* The complex values of the result and of the argument, in the heap as it is now.
YVals == Vals(heap, y)
XVals == Vals(heap, x)

\* y = fft(x, direction) computed in a fresh process: an empty heap and an empty cache.
FftOf(v, direction) ==
    LET a == constructByArrayOfComplex(<<<<>>>>, v)
        r == fft([h |-> a.h, cache |-> <<>>, log |-> <<>>, err |-> NoError], a.r, direction)
    IN [vals |-> Vals(r.m.h, r.r), err |-> r.m.err]

\* Powers of two and their logarithm, by their definition.
IsPow2(n) == \E k \in 0..30 : n = 2^k
Log2(n) == CHOOSE k \in 0..30 : n = 2^k

Conj(v) == [i \in 1..Len(v) |-> <<v[i][1], NegF(v[i][2])>>]
Scaled(v, c) == [i \in 1..Len(v) |-> <<MulF(Real(c), v[i][1]), MulF(Real(c), v[i][2])>>]
NonZero(v) == \E i \in 1..Len(v) : v[i] # <<0, 0>>
AfterFft == op \in {"fft", "fftBack"}
CallsOf(fn) == {i \in 1..Len(calls) : calls[i].fn = fn}

(***************************************************************************)
(* C1.  fft dispatches on the length n alone: n <= 1 returns a copy with   *)
(* the values unchanged and calls nothing; a power of two goes to          *)
(* fftCooleyTukey and every other n to fftBluestein; and in every call,    *)
(* the nested ones of Bluestein's convolution included, fftCooleyTukey     *)
(* and the sine table cache only ever see a power-of-two length >= 2.      *)
(***************************************************************************)
C1_Dispatch ==
    AfterFft =>
        LET n == Len(arg.vals) IN
        /\ calls[1] = [fn |-> "fft", n |-> n]
        /\ n <= 1 => (Len(calls) = 1 /\ err = NoError /\ YVals = arg.vals)
        /\ (n > 1 /\ IsPow2(n)) => calls[2] = [fn |-> "fftCooleyTukey", n |-> n]
        /\ (n > 1 /\ ~IsPow2(n)) => calls[2] = [fn |-> "fftBluestein", n |-> n]
        /\ \A i \in 1..Len(calls) :
              calls[i].fn \in {"fftCooleyTukey", "getCachedCooleyTukeySineTable",
                               "createCooleyTukeySineTable"}
                  => (IsPow2(calls[i].n) /\ calls[i].n >= 2)

C1_Witness ==
    /\ op = "fft"
    /\ CallsOf("fftBluestein") # {}
    /\ Cardinality(CallsOf("fftCooleyTukey")) = 3
    /\ NonZero(arg.vals)

(***************************************************************************)
(* C2.  For a power-of-two length n, fft(x, true) has length n and its     *)
(* element k is the brute-force sum over j of x[j] * e^(-2 pi i j k / n),  *)
(* without normalization.                                                  *)
(***************************************************************************)
C2_RadixTwoIsDft ==
    (AfterFft /\ arg.flag /\ IsPow2(Len(arg.vals))) =>
        /\ err = NoError
        /\ y.length = Len(arg.vals)
        /\ YVals = dft(arg.vals, TRUE)

C2_Witness ==
    /\ op = "fft" /\ arg.flag /\ Len(arg.vals) = 4 /\ NonZero(arg.vals)
    /\ CallsOf("fftCooleyTukey") # {}

(***************************************************************************)
(* C3.  For a length n >= 3 that is no power of two, fft(x, true), which   *)
(* takes the Bluestein path, has length n and equals the direct DFT sum.   *)
(***************************************************************************)
C3_BluesteinIsDft ==
    (AfterFft /\ arg.flag /\ Len(arg.vals) >= 3 /\ ~IsPow2(Len(arg.vals))) =>
        /\ err = NoError
        /\ y.length = Len(arg.vals)
        /\ YVals = dft(arg.vals, TRUE)

C3_Witness ==
    /\ op = "fft" /\ arg.flag /\ Len(arg.vals) = 5 /\ NonZero(arg.vals)
    /\ CallsOf("fftBluestein") # {}

(***************************************************************************)
(* C4.  The inverse direction, computed by swapping the parts, running     *)
(* the forward transform and swapping back, equals the conjugate of the    *)
(* forward transform of the conjugate, which is the unnormalized inverse   *)
(* DFT sum over j of x[j] * e^(+2 pi i j k / n), on both paths.            *)
(***************************************************************************)
C4_InverseBySwap ==
    (AfterFft /\ ~arg.flag) =>
        /\ err = NoError
        /\ YVals = Conj(FftOf(Conj(arg.vals), TRUE).vals)
        /\ YVals = dft(arg.vals, FALSE)

C4_Witness ==
    /\ op = "fft" /\ ~arg.flag /\ Len(arg.vals) = 3 /\ NonZero(arg.vals)
    /\ CallsOf("fftBluestein") # {}

(***************************************************************************)
(* C5.  Round trip: for n >= 1, fft(fft(x, true), false) is n * x,         *)
(* element by element: neither direction divides by n.                     *)
(***************************************************************************)
C5_RoundTrip ==
    (op = "fftBack" /\ ~arg.flag /\ Len(arg.prev) >= 1) =>
        /\ err = NoError
        /\ YVals = Scaled(arg.prev, Len(arg.prev))

C5_Witness ==
    /\ op = "fftBack" /\ ~arg.flag /\ Len(arg.prev) = 5 /\ NonZero(arg.prev)

(***************************************************************************)
(* C6.  fft leaves its argument as it was, in both directions and for      *)
(* every n, and returns arrays of its own: the result shares no buffer     *)
(* with the argument, and a later write into the result does not show      *)
(* in the argument.                                                        *)
(***************************************************************************)
C6_InputUntouched ==
    /\ (AfterFft \/ op = "write") => XVals = arg.vals
    /\ (AfterFft /\ err = NoError /\ y.length > 0) =>
           /\ {y.re.buf, y.im.buf} \cap {x.re.buf, x.im.buf} = {}
           /\ y.re.buf # y.im.buf

C6_Witness ==
    /\ op = "write" /\ ~arg.flag /\ Len(arg.vals) >= 2 /\ NonZero(arg.vals)
    /\ YVals # dft(arg.vals, FALSE)

(***************************************************************************)
(* C7.  The sine table cache only grows: in every step each table that     *)
(* exists stays in its slot with the same numbers, and a slot is filled    *)
(* only by a call that asked for the table of that power-of-two size.      *)
(***************************************************************************)
C7_CacheAppendOnly ==
    [][/\ \A k \in DOMAIN cache :
              /\ k \in DOMAIN cache'
              /\ Vals(heap', cache'[k]) = Vals(heap, cache[k])
       /\ \A k \in DOMAIN cache' \ DOMAIN cache :
              \E i \in 1..Len(calls') :
                  calls'[i] = [fn |-> "getCachedCooleyTukeySineTable", n |-> 2^k]]_vars

C7_Witness ==
    /\ op = "fft"
    /\ Cardinality(DOMAIN cache) >= 2
    /\ CallsOf("getCachedCooleyTukeySineTable") # {}
    /\ CallsOf("createCooleyTukeySineTable") = {}

(***************************************************************************)
(* C8.  The table asked for with a power-of-two n is in slot floor(log2 n) *)
(* and has n/2 entries, whatever was asked for before.                     *)
(* As claimed, entry k is (cos(k 2 pi / n), sin(k 2 pi / n)):              *)
(* C8_TableAsClaimed.  The code stores (cos(k 2 pi / n), -sin(k 2 pi / n)),*)
(* the sample e^(-i 2 pi k / n): C8_TableIsConjugate.                      *)
(***************************************************************************)
TableAt(n) == Vals(heap, cache[Log2(n)])

RequestedSizes == {calls[i].n : i \in CallsOf("getCachedCooleyTukeySineTable")}

C8_TableAsClaimed ==
    \A n \in RequestedSizes :
        IsPow2(n) =>
            /\ Log2(n) \in DOMAIN cache
            /\ TableAt(n) = [j \in 1..(n \div 2) |-> <<Cos(j - 1, n), Sin(j - 1, n)>>]

C8_TableIsConjugate ==
    \A n \in RequestedSizes :
        IsPow2(n) =>
            /\ Log2(n) \in DOMAIN cache
            /\ cache[Log2(n)].length = n \div 2
            /\ TableAt(n) = [j \in 1..(n \div 2) |-> <<Cos(j - 1, n), NegF(Sin(j - 1, n))>>]

C8_Witness ==
    /\ 8 \in RequestedSizes
    /\ {1, 2} \subseteq DOMAIN cache
    /\ CallsOf("createCooleyTukeySineTable") # {}

(***************************************************************************)
(* C9.  A call's result does not depend on what the cache held: fft        *)
(* returns, after any history of calls, what it returns in a fresh         *)
(* process with an empty cache, and leaves its argument unchanged, so      *)
(* that only the cache can differ afterwards.                              *)
(***************************************************************************)
C9_ResultIgnoresCache ==
    AfterFft =>
        /\ YVals = FftOf(arg.vals, arg.flag).vals
        /\ err = FftOf(arg.vals, arg.flag).err
        /\ XVals = arg.vals

C9_Witness ==
    /\ op = "fft" /\ Len(arg.vals) = 4 /\ NonZero(arg.vals)
    /\ DOMAIN cache = {1, 2, 3}
    /\ CallsOf("createCooleyTukeySineTable") = {}

(***************************************************************************)
(* C10.  The functions that need an even length throw on an odd one, at    *)
(* once: fftRealHalf for every odd input length >= 3 and iFftRealHalfOpt   *)
(* for every odd positive outputLength, before any transform is run or     *)
(* any table is created, returning nothing and leaving the argument alone; *)
(* an input of length 0 or 1 and an outputLength <= 0 return without an    *)
(* error, and so does every even length.                                   *)
(***************************************************************************)
Odd(n) == n % 2 = 1

C10_OddLengthThrows ==
    /\ op = "fftRealHalf" =>
           LET n == Len(arg.vals) IN
           /\ (n >= 3 /\ Odd(n)) =>
                  /\ err = "Input array size is not even."
                  /\ calls = <<>>
                  /\ y = NoArray
                  /\ XVals = arg.vals
           /\ ~(n >= 3 /\ Odd(n)) => err = NoError
           /\ n <= 1 => (calls = <<>> /\ YVals = arg.vals)
    /\ op = "iFftRealHalfOpt" =>
           /\ (arg.len > 0 /\ Odd(arg.len)) =>
                  /\ err = "output length is not even."
                  /\ calls = <<>>
                  /\ y = NoArray
                  /\ XVals = arg.vals
           /\ ~(arg.len > 0 /\ Odd(arg.len)) => err = NoError
           /\ arg.len <= 0 => (calls = <<>> /\ y.length = 0)

C10_Witness ==
    /\ op = "fftRealHalf"
    /\ Len(arg.vals) = 3
    /\ NonZero(arg.vals)
    /\ err # NoError
    /\ DOMAIN cache # {}

(***************************************************************************)
(* C11.  fftRealSpectrum throws for an input of length 0, whatever         *)
(* inclNyquist is, having made no internal call and so without touching    *)
(* the cache; for every length >= 1 it returns a spectrum and does not     *)
(* throw.                                                                  *)
(***************************************************************************)
RealVals(v) == [i \in 1..Len(v) |-> v[i][1]]
AfterSpectrum == op = "fftRealSpectrum"

C11_EmptyInputThrows ==
    [][(op = "newReal" /\ op' = "fftRealSpectrum") =>
           IF x.length = 0
           THEN /\ err' = "Input array must not be empty."
                /\ y' = NoArray
                /\ calls' = <<>>
                /\ DOMAIN cache' = DOMAIN cache
                /\ \A k \in DOMAIN cache : Vals(heap', cache'[k]) = Vals(heap, cache[k])
           ELSE /\ err' = NoError
                /\ y' # NoArray
                /\ y'.length >= 1]_vars

C11_Witness ==
    /\ AfterSpectrum
    /\ Len(arg.vals) = 0
    /\ err # NoError
    /\ DOMAIN cache # {}

(***************************************************************************)
(* C12.  For N >= 1 samples the spectrum fftRealSpectrum returns has       *)
(* N/2 + 1 bins when N is even and inclNyquist is set and ceil(N/2) bins   *)
(* otherwise, which is the length of dftRealSpectrum's result, and its     *)
(* length field is the length of both of its arrays.                       *)
(***************************************************************************)
C12_SpectrumLength ==
    (AfterSpectrum /\ Len(arg.vals) >= 1) =>
        LET N == Len(arg.vals) IN
        /\ y.length = IF N % 2 = 0 /\ arg.flag THEN N \div 2 + 1 ELSE (N + 1) \div 2
        /\ y.length = Len(dftRealSpectrum(RealVals(arg.vals), arg.flag))
        /\ y.re.len = y.length
        /\ y.im.len = y.length

C12_Witness ==
    /\ AfterSpectrum
    /\ Len(arg.vals) = 3
    /\ y.length = 2
    /\ y.re.off = 0
    /\ Len(heap[y.re.buf]) = 3

(***************************************************************************)
(* C13.  For N >= 1 real samples, even or odd, and both values of          *)
(* inclNyquist, bin k of fftRealSpectrum(x) is r_k times the sum over t    *)
(* of x[t] e^(-2 pi i k t / N), r_k = 1/N for k = 0 and for k = N/2 and    *)
(* 2/N for the other bins: the result of dftRealSpectrum.                  *)
(***************************************************************************)
C13_SpectrumIsDft ==
    (AfterSpectrum /\ Len(arg.vals) >= 1) =>
        /\ YVals = dftRealSpectrum(RealVals(arg.vals), arg.flag)
        /\ \A k \in 0..(y.length - 1) :
               YVals[k + 1] =
                   LET c == dftSingle(arg.vals, k, TRUE)
                       r == IF k = 0 \/ 2 * k = Len(arg.vals) THEN InvF(Len(arg.vals))
                            ELSE MulF(2, InvF(Len(arg.vals)))
                   IN <<MulF(r, c[1]), MulF(r, c[2])>>

C13_Witness ==
    /\ AfterSpectrum
    /\ Len(arg.vals) = 4
    /\ arg.flag
    /\ y.length = 3
    /\ YVals[3] # <<0, 0>>
    /\ YVals[2] # <<0, 0>>

(***************************************************************************)
(* C14.  For a real input x of even length n >= 2, fftRealHalf(x) has      *)
(* n/2 elements and element k is element k of the complex FFT of x; with   *)
(* inclNyquist it has one more element, at index n/2, which is the         *)
(* alternating sum of the samples with imaginary part 0.                   *)
(***************************************************************************)
RECURSIVE AlternatingSum(_, _)
AlternatingSum(v, t) ==
    IF t < Len(v)
    THEN AddF(IF t % 2 = 0 THEN v[t + 1] ELSE NegF(v[t + 1]), AlternatingSum(v, t + 1))
    ELSE 0

AfterHalf == op = "fftRealHalf"

C14_HalfOfFullFft ==
    (AfterHalf /\ Len(arg.vals) >= 2 /\ Len(arg.vals) % 2 = 0) =>
        /\ err = NoError
        /\ y.length = Len(arg.vals) \div 2 + (IF arg.flag THEN 1 ELSE 0)
        /\ Len(YVals) = y.length
        /\ \A k \in 1..(Len(arg.vals) \div 2) : YVals[k] = FftOf(arg.vals, TRUE).vals[k]
        /\ arg.flag =>
               YVals[Len(arg.vals) \div 2 + 1] = <<AlternatingSum(RealVals(arg.vals), 0), 0>>

C14_Witness ==
    /\ AfterHalf
    /\ Len(arg.vals) = 4
    /\ arg.flag
    /\ y.length = 3
    /\ YVals[2][2] # 0
    /\ YVals[3][1] # 0

(***************************************************************************)
(* C15.  For every even output length >= 2, every non-empty half-spectrum  *)
(* (with fewer bins than the transform uses, exactly as many, or more) and *)
(* both values of inclNyquist, iFftRealHalfSimple and iFftRealHalfOpt      *)
(* return the same signal of that length: sample t is the sum, over the    *)
(* bins k the transform uses, of |X[k]| cos(arg X[k] + 2 pi k t / length). *)
(* The bins used are those below length / 2 and, with inclNyquist, the bin *)
(* length / 2, as far as the spectrum has them.                            *)
(***************************************************************************)
UsedBins(len, inclNyquist) == {k \in 0..len : 2 * k < len \/ (inclNyquist /\ 2 * k = len)}

\* iFftRealHalfOpt(x, len, inclNyquist) computed in a fresh process.
IFftRealHalfOptOf(v, len, inclNyquist) ==
    LET a == constructByArrayOfComplex(<<<<>>>>, v)
        r == iFftRealHalfOpt([h |-> a.h, cache |-> <<>>, log |-> <<>>, err |-> NoError],
                             a.r, len, inclNyquist)
    IN [vals |-> Vals(r.m.h, r.r), err |-> r.m.err]

AfterInverse == op \in {"iFftRealHalfSimple", "iFftRealHalfOpt"}

C15_InversesAgree ==
    (AfterInverse /\ arg.len >= 2 /\ arg.len % 2 = 0 /\ Len(arg.vals) >= 1) =>
        /\ err = NoError
        /\ y.length = arg.len
        /\ RealVals(YVals) = iDftRealSpectrum(arg.vals, arg.len, UsedBins(arg.len, arg.flag))
        /\ YVals = IFftRealHalfOptOf(arg.vals, arg.len, arg.flag).vals

C15_Witness ==
    /\ op = "iFftRealHalfSimple"
    /\ arg.len = 4
    /\ arg.flag
    /\ Len(arg.vals) = 5
    /\ arg.vals[2] # <<0, 0>>
    /\ YVals[2][1] # YVals[1][1]

(***************************************************************************)
(* C16.  For every real signal x of length N >= 1, even or odd,            *)
(* iFftRealHalf(fftRealSpectrum(x, true), N, true) is x.                   *)
(***************************************************************************)
C16_RoundTrip ==
    op = "iFftRealHalfBack" =>
        /\ err = NoError
        /\ y.length = Len(arg.prev)
        /\ YVals = arg.prev

C16_Witness ==
    /\ op = "iFftRealHalfBack"
    /\ Len(arg.prev) = 3
    /\ arg.prev[2] # <<0, 0>>
    /\ YVals = arg.prev

(***************************************************************************)
(* C17.  iFftRealHalfSimple depends only on the bins the output length     *)
(* needs, an absent bin being read as zero: for every output length >= 1,  *)
(* a spectrum that agrees with the argument on the bins 0..floor(len / 2), *)
(* missing bins taken as zero, the spectrum with no bins included, gives   *)
(* the same result, and the result has exactly len samples.                *)
(***************************************************************************)
\* iFftRealHalfSimple(x, len, inclNyquist) computed in a fresh process.
IFftRealHalfSimpleOf(v, len, inclNyquist) ==
    LET a == IF Len(v) = 0 THEN constructByLength(<<<<>>>>, 0)
             ELSE constructByArrayOfComplex(<<<<>>>>, v)
        r == iFftRealHalfSimple([h |-> a.h, cache |-> <<>>, log |-> <<>>, err |-> NoError],
                                a.r, len, inclNyquist)
    IN [vals |-> Vals(r.m.h, r.r), err |-> r.m.err]

\* Bin k of the spectrum v, zero where v has no such bin.
Bin(v, k) == IF k < Len(v) THEN v[k + 1] ELSE <<0, 0>>

AgreeOnNeededBins(v, w, len) == \A k \in 0..(len \div 2) : Bin(v, k) = Bin(w, k)

AfterSimple == op = "iFftRealHalfSimple"

C17_DependsOnNeededBins ==
    (AfterSimple /\ arg.len >= 1) =>
        /\ err = NoError
        /\ y.length = arg.len
        /\ \A w \in Inputs :
               AgreeOnNeededBins(arg.vals, w, arg.len) =>
                   IFftRealHalfSimpleOf(w, arg.len, arg.flag).vals = YVals

\* The same for spectra that have at least one bin, which is what the code does.
C17_NonEmptySpectra ==
    (AfterSimple /\ arg.len >= 1 /\ Len(arg.vals) >= 1) =>
        /\ err = NoError
        /\ y.length = arg.len
        /\ \A w \in Inputs \ {<<>>} :
               AgreeOnNeededBins(arg.vals, w, arg.len) =>
                   IFftRealHalfSimpleOf(w, arg.len, arg.flag).vals = YVals

\* The spectrum with no bins: the result has no samples, whatever len is.
C17_EmptySpectrum ==
    (AfterSimple /\ Len(arg.vals) = 0) => (err = NoError /\ y.length = 0)

C17_Witness ==
    /\ AfterSimple
    /\ arg.len = 3
    /\ Len(arg.vals) = 0
    /\ y.length = 0

(***************************************************************************)
(* C18.  fftShift is the circular rotation by floor(n / 2): for every      *)
(* length n >= 0 the result has length n and element (p + floor(n / 2))    *)
(* mod n of the result is element p of the input, so that element 0 is at  *)
(* index floor(n / 2) and the result is a permutation of the input; the    *)
(* input is not modified.                                                  *)
(***************************************************************************)
Bufs(a) == {a.re.buf, a.im.buf}

C18_ShiftRotates ==
    op = "fftShift" =>
        LET n == Len(arg.vals) IN
        /\ err = NoError
        /\ y.length = n /\ y.re.len = n /\ y.im.len = n
        /\ \A p \in 0..(n - 1) : YVals[((p + n \div 2) % n) + 1] = arg.vals[p + 1]
        /\ n >= 1 => YVals[n \div 2 + 1] = arg.vals[1]
        /\ \E f \in [1..n -> 1..n] :
               /\ \A i, j \in 1..n : f[i] = f[j] => i = j
               /\ \A i \in 1..n : YVals[f[i]] = arg.vals[i]
        /\ XVals = arg.vals
        /\ n >= 1 => Bufs(x) \cap Bufs(y) = {}

C18_Witness ==
    /\ op = "fftShift"
    /\ Len(arg.vals) = 5
    /\ YVals[3] = arg.vals[1]
    /\ YVals[1] = arg.vals[4]
    /\ YVals[1] # YVals[2]

(***************************************************************************)
(* C19.  Every ComplexArray the public operations produce (the             *)
(* constructors, fromPolar, slice, subarray with any begin and end, the    *)
(* result of a transform function) has length = re.length = im.length, and *)
(* no element operation changes that.                                      *)
(***************************************************************************)
WellFormed(a) == a.length = a.re.len /\ a.length = a.im.len

C19_LengthIsArrayLength == WellFormed(x) /\ WellFormed(y)

\* begin and end are indexes into the array subarray was called on, in order.
InRange == 0 <= arg.begin /\ arg.begin <= arg.end /\ arg.end <= x.length

\* What the code keeps: the two arrays have one length, and that is the length field
\* except in the result of a subarray call whose begin or end is out of range.
C19_LengthUnlessOutOfRange ==
    /\ WellFormed(x)
    /\ y.re.len = y.im.len
    /\ (op = "subarray" /\ ~InRange) \/ WellFormed(y)

C19_Witness ==
    /\ op = "subarray"
    /\ arg.begin = 0
    /\ arg.end = 4
    /\ x.length = 3
    /\ y.length = 4
    /\ y.re.len = 3

(***************************************************************************)
(* C20.  slice returns a copy and subarray a view.  Whatever elements were *)
(* written before, writing element i of a slice leaves the array it was    *)
(* taken from as it is, and writing an element of that array leaves the    *)
(* slice as it is; writing element i of a view writes element begin + i of *)
(* the array it was taken from, and writing an element of the array inside *)
(* the range of the view writes the element of the view.  begin is the     *)
(* index the view starts at: the argument, counted from the end of the     *)
(* array when it is negative and limited to the length of the array.       *)
(***************************************************************************)
\* The elements an array holds, as far as its two Float64Arrays reach.
Elems(h, a) == [k \in 1..a.re.len |-> <<RdF(h, a.re, k - 1), RdF(h, a.im, k - 1)>>]

\* The elements s with the written element at index k, if s has that index.
Put(s, k) == IF k \in 1..Len(s) THEN [s EXCEPT ![k] = Written] ELSE s

ViewStart == ClampIndex(arg.begin, x.re.len)

WriteEffect(target, i) ==
    IF op = "slice"
    THEN /\ target = "x" => /\ Elems(heap', x) = Put(Elems(heap, x), i + 1)
                            /\ Elems(heap', y) = Elems(heap, y)
         /\ target = "y" => /\ Elems(heap', y) = Put(Elems(heap, y), i + 1)
                            /\ Elems(heap', x) = Elems(heap, x)
    ELSE /\ target = "y" =>
               /\ Elems(heap', y) = Put(Elems(heap, y), i + 1)
               /\ Elems(heap', x) = IF i < y.re.len
                                    THEN Put(Elems(heap, x), ViewStart + i + 1)
                                    ELSE Elems(heap, x)
         /\ target = "x" =>
               /\ Elems(heap', x) = Put(Elems(heap, x), i + 1)
               /\ Elems(heap', y) = IF i >= ViewStart /\ i < ViewStart + y.re.len
                                    THEN Put(Elems(heap, y), i - ViewStart + 1)
                                    ELSE Elems(heap, y)

C20_CopyAndView ==
    [][\A target \in {"x", "y"}, i \in 0..(MaxLen - 1) :
           CallSetReIm(target, i) => WriteEffect(target, i)]_vars

C20_Witness ==
    /\ op = "subarray"
    /\ arg.begin = 1
    /\ arg.end = 3
    /\ arg.writes = 2
    /\ Len(arg.vals) = 4
    /\ y.re.buf = x.re.buf
    /\ Elems(heap, y) = <<Written, Written>>
    /\ Elems(heap, x)[2] = Written
    /\ Elems(heap, x)[3] = Written
    /\ Elems(heap, x)[1] = arg.vals[1]

(***************************************************************************)
(* C21.  setDiv(i, re1, im1, re2, im2) writes into slot i the quotient     *)
(* (re1, im1) / (re2, im2), the value q with q * (re2, im2) = (re1, im1),  *)
(* for every non-zero divisor, and leaves the other slots as they are;     *)
(* divBy on ComplexArray and on MutableComplex give the value of           *)
(* Complex.div.                                                            *)
(***************************************************************************)
AfterDiv == op \in {"setDiv", "divBy"}

C21_SetDivIsQuotient ==
    (AfterDiv /\ arg.c2 # <<0, 0>>) =>
        /\ \A k \in 1..Len(arg.vals) : k # arg.i + 1 => XVals[k] = arg.vals[k]
        /\ arg.i < x.length =>
               /\ ComplexMul(XVals[arg.i + 1], arg.c2) = arg.c1
               /\ XVals[arg.i + 1] = ComplexDiv(arg.c1, arg.c2)
        /\ MutableComplexDivBy(arg.c1, arg.c2) = ComplexDiv(arg.c1, arg.c2)

\* What the code does: the numerators of the quotient over the squared magnitude of
\* the dividend (re1, im1); the other slots are left as they are, and ComplexArray and
\* MutableComplex agree with each other.
C21_SetDivAsCoded ==
    AfterDiv =>
        /\ \A k \in 1..Len(arg.vals) : k # arg.i + 1 => XVals[k] = arg.vals[k]
        /\ arg.i < x.length =>
               /\ XVals[arg.i + 1] = MutableComplexDivBy(arg.c1, arg.c2)
               /\ XVals[arg.i + 1] =
                      <<DivF(ComplexMul(arg.c1, <<arg.c2[1], NegF(arg.c2[2])>>)[1],
                             ComplexMul(arg.c1, <<arg.c1[1], NegF(arg.c1[2])>>)[1]),
                        DivF(ComplexMul(arg.c1, <<arg.c2[1], NegF(arg.c2[2])>>)[2],
                             ComplexMul(arg.c1, <<arg.c1[1], NegF(arg.c1[2])>>)[1])>>

C21_Witness ==
    /\ op = "setDiv"
    /\ arg.c1 = <<1, 0>>
    /\ arg.c2 = <<2, 1>>
    /\ arg.i = 1
    /\ x.length = 3
    /\ XVals[2] = <<2, NegF(1)>>
    /\ ComplexDiv(arg.c1, arg.c2) # XVals[2]

(***************************************************************************)
(* C22.  mulByArray(a2) raises an error whenever the length of a2 differs  *)
(* from the length of the receiver, and then no element of either array    *)
(* has changed; with equal lengths element i of the receiver becomes       *)
(* receiver[i] * a2[i], also when a2 is the receiver itself, and a2, when  *)
(* it is another array, is not modified.                                   *)
(***************************************************************************)
C22_MulByArray ==
    op = "mulByArray" =>
        IF Len(arg.prev) # Len(arg.vals)
        THEN /\ err # NoError
             /\ XVals = arg.vals
             /\ YVals = arg.prev
        ELSE /\ err = NoError
             /\ XVals = [i \in 1..Len(arg.vals) |-> ComplexMul(arg.vals[i], arg.prev[i])]
             /\ ~arg.flag => YVals = arg.prev

C22_Witness ==
    /\ op = "mulByArray"
    /\ ~arg.flag
    /\ Len(arg.vals) = 3
    /\ Len(arg.prev) = 3
    /\ err = NoError
    /\ XVals[2] = ComplexMul(arg.vals[2], arg.prev[2])
    /\ XVals[2] # arg.vals[2]

(***************************************************************************)
(* C23.  For input and output lengths from 2 on, both values of            *)
(* preserveScale and any extraValues, resampleNearestNeighbor leaves in    *)
(* the output array what resampleNearestNeighborRef leaves there: each     *)
(* output element is the same input element (the input elements being      *)
(* distinct) or extraValues; and every index at which the optimized loop   *)
(* reads the input array is within 0..ia.length - 1.                       *)
(***************************************************************************)
\* resampleNearestNeighborRef(ia, new Float64Array(oLen), ..) in a fresh process: the
\* output array and the log.
NearestNeighborRefOf(v, oLen, preserveScale, extraValues) ==
    LET a == NewF64From(<<<<>>>>, v)
        o == NewF64(a.h, oLen)
        m == resampleNearestNeighborRef([h |-> o.h, cache |-> <<>>, log |-> <<>>, err |-> NoError],
                                        a.r, o.r, preserveScale, extraValues)
    IN [vals |-> F64Vals(m.h, o.r), log |-> m.log]

ReadsInside(log, iLen) == \A k \in 1..Len(log) : log[k].fn = "ia" => log[k].n \in 0..(iLen - 1)

C23_NearestNeighborIsRef ==
    (op = "resampleNearestNeighbor" /\ Len(arg.vals) >= 2 /\ arg.len >= 2) =>
        /\ err = NoError
        /\ y.length = arg.len
        /\ RealVals(YVals) =
               NearestNeighborRefOf(RealVals(arg.vals), arg.len, arg.flag, arg.extra).vals
        /\ ReadsInside(calls, Len(arg.vals))
        /\ XVals = arg.vals

C23_Witness ==
    /\ op = "resampleNearestNeighbor"
    /\ Len(arg.vals) = 3
    /\ arg.len = 7
    /\ arg.flag
    /\ arg.extra = Real(-99)
    /\ YVals[7][1] = arg.extra
    /\ YVals[6][1] = arg.vals[3][1]
    /\ \E k \in 1..Len(calls) : calls[k].fn = "ia" /\ calls[k].n = 2

(***************************************************************************)
(* C24.  For input and output lengths from 2 on and both values of         *)
(* preserveScale, resampleLinear leaves in the output array what           *)
(* resampleLinearRef leaves there.  At every output position op of its     *)
(* loop, after the stepping, ip * od + d = op * id and 0 <= d < od; it     *)
(* reads the same input elements in the same order as the reference, so    *)
(* ia[ip + 1] only when ip + 1 <= ia.length - 1; and the extra values at   *)
(* the end are those of the reference.                                     *)
(***************************************************************************)
LinearRefOf(v, oLen, preserveScale, extraValues) ==
    LET a == NewF64From(<<<<>>>>, v)
        o == NewF64(a.h, oLen)
        m == resampleLinearRef([h |-> o.h, cache |-> <<>>, log |-> <<>>, err |-> NoError],
                               a.r, o.r, preserveScale, extraValues)
    IN [vals |-> F64Vals(m.h, o.r), log |-> m.log]

IsRead(c) == c.fn = "ia"

\* The steps of resampleLinear for the arguments of the last call.
LinearId == IF arg.flag THEN Len(arg.vals) ELSE Len(arg.vals) - 1
LinearOd == IF arg.flag THEN arg.len ELSE arg.len - 1

LoopStateHolds(log, id, od) ==
    \A k \in 1..Len(log) :
        log[k].fn = "oa" => /\ log[k].ip * od + log[k].d = log[k].n * id
                            /\ log[k].d >= 0
                            /\ log[k].d < od

AfterLinear == op = "resampleLinear" /\ Len(arg.vals) >= 2 /\ arg.len >= 2

C24_LinearIsRef ==
    AfterLinear =>
        /\ err = NoError
        /\ y.length = arg.len
        /\ RealVals(YVals) = LinearRefOf(RealVals(arg.vals), arg.len, arg.flag, arg.extra).vals
        /\ SelectSeq(calls, IsRead) =
               LinearRefOf(RealVals(arg.vals), arg.len, arg.flag, arg.extra).log
        /\ Len(arg.vals) # arg.len => LoopStateHolds(calls, LinearId, LinearOd)
        /\ ReadsInside(calls, Len(arg.vals))
        /\ XVals = arg.vals

C24_Witness ==
    /\ AfterLinear
    /\ Len(arg.vals) = 3
    /\ arg.len = 7
    /\ arg.flag
    /\ arg.extra = Real(-99)
    /\ YVals[7][1] = arg.extra
    /\ YVals[6][1] = arg.extra
    /\ YVals[5][1] = DivF(Real(190), Real(7))
    /\ \E k \in 1..Len(calls) : calls[k].fn = "oa" /\ calls[k].n = 4 /\ calls[k].ip = 1
                                  /\ calls[k].d = 5

(***************************************************************************)
(* C25.  For every n >= 3 that is not a power of two, the working size m   *)
(* of fftBluestein is the smallest power of two >= 2n - 3, and m >= 2n - 2:*)
(* the positions 0..n-1 and m-(n-1)..m-1 of a length-m buffer share no     *)
(* slot for two lags of different distance.  Stated of the size the nested *)
(* transforms of the last call were given, and of bluesteinSize for the    *)
(* lengths up to MaxBluestein.                                             *)
(***************************************************************************)
AfterBluestein == op = "fft" /\ Len(arg.vals) >= 3 /\ ~IsPow2(Len(arg.vals))

BluesteinLengths == {n \in 3..MaxBluestein : ~IsPow2(n)}

\* The mirror position m - d of a lag d is no position 0..n-1 of another lag.
NoWrap(n, m) == \A d \in 1..(n - 1) : (m - d > 0) /\ (m - d <= n - 1 => m - d = d)

SizeFits(n, m) ==
    /\ IsPow2(m)
    /\ m >= 2 * n - 3
    /\ \A k \in 0..30 : 2^k >= 2 * n - 3 => 2^k >= m
    /\ m >= 2 * n - 2
    /\ NoWrap(n, m)

C25_BluesteinSize ==
    AfterBluestein =>
        /\ calls[3].fn = "fft"
        /\ calls[3].n = bluesteinSize(Len(arg.vals))
        /\ SizeFits(Len(arg.vals), calls[3].n)
        /\ \A n \in BluesteinLengths : SizeFits(n, bluesteinSize(n))

C25_Witness ==
    /\ AfterBluestein
    /\ Len(arg.vals) = 3
    /\ calls[3] = [fn |-> "fft", n |-> 4]
    /\ NonZero(arg.vals)
    /\ err = NoError

(***************************************************************************)
(* C26.  A Bluestein transform of a length n that is not a power of two    *)
(* calls fft three times, each time with an array of the working size m:   *)
(* each of the three goes to fftCooleyTukey and none to fftBluestein, the  *)
(* first two are forward transforms and the last one an inverse one (the   *)
(* only one whose result has its parts swapped), and the call returns.     *)
(***************************************************************************)
IsDispatch(c) == c.fn \in {"fft", "fftCooleyTukey", "fftBluestein", "swapReIm"}

Call(fn, n) == [fn |-> fn, n |-> n]

BluesteinCalls(n, m) ==
    <<Call("fft", n), Call("fftBluestein", n),
      Call("fft", m), Call("fftCooleyTukey", m),
      Call("fft", m), Call("fftCooleyTukey", m),
      Call("fft", m), Call("fftCooleyTukey", m), Call("swapReIm", m)>>

C26_NestedRadix2 ==
    AfterBluestein =>
        /\ err = NoError
        /\ y.length = Len(arg.vals)
        /\ SelectSeq(calls, IsDispatch) =
               BluesteinCalls(Len(arg.vals), bluesteinSize(Len(arg.vals)))
                   \o (IF arg.flag THEN <<>> ELSE <<Call("swapReIm", Len(arg.vals))>>)

C26_Witness ==
    /\ AfterBluestein
    /\ Len(arg.vals) = 5
    /\ ~arg.flag
    /\ Cardinality(CallsOf("fftCooleyTukey")) = 3
    /\ Cardinality(CallsOf("fftBluestein")) = 1
    /\ Cardinality(CallsOf("swapReIm")) = 2
    /\ \A i \in CallsOf("fftCooleyTukey") : calls[i].n = 8

(***************************************************************************)
(* C27.  For n >= 3 not a power of two and working size m, with            *)
(* chirp[k] = exp(i * pi * ((k * k) mod 2n) / n): the second buffer of     *)
(* fftBluestein has chirp[i] at i for i in 0..n-1, chirp[i] at m - i for   *)
(* i in 1..n-1 and zero elsewhere, so that every lag d in -(n-1)..n-1      *)
(* finds chirp[|d|] at d mod m; the first buffer has x[i] * conj(chirp[i]) *)
(* at 0..n-1 and zero at n..m-1.                                           *)
(***************************************************************************)
\* The argument of fftBluestein in the last call of fft.
BluesteinInput ==
    IF arg.flag THEN arg.vals ELSE [i \in 1..Len(arg.vals) |-> <<arg.vals[i][2], arg.vals[i][1]>>]

\* The sine table and the two buffers fftBluestein builds for the values v, in a fresh process.
BluesteinBuffersOf(v, n, m) ==
    LET a == constructByArrayOfComplex(<<<<>>>>, v)
        t == createSineOfSquareTable(a.h, n, 2 * n)
        a1 == modulate(constructByLength(t.h, m), a.r, t.r, n)
        a2 == kernel(constructByLength(a1.h, m), t.r, n, m)
    IN [A |-> Vals(a2.h, a1.r), B |-> Vals(a2.h, a2.r), table |-> Vals(a2.h, t.r)]

Chirp(n, k) == <<Cos((k * k) % (2 * n), 2 * n), Sin((k * k) % (2 * n), 2 * n)>>

Abs(d) == IF d < 0 THEN -d ELSE d

BuffersAsSpecified(b, v, n, m) ==
    /\ Len(b.A) = m
    /\ Len(b.B) = m
    /\ \A k \in 0..(n - 1) : b.table[k + 1] = Chirp(n, k)
    /\ \A k \in 0..(m - 1) :
          b.B[k + 1] = IF k < n THEN Chirp(n, k)
                       ELSE IF m - k < n THEN Chirp(n, m - k)
                       ELSE <<0, 0>>
    /\ \A i \in 1..(n - 1) : b.B[m - i + 1] = Chirp(n, i)
    /\ \A d \in (1 - n)..(n - 1) : b.B[(d % m) + 1] = Chirp(n, Abs(d))
    /\ \A k \in 0..(m - 1) :
          b.A[k + 1] = IF k < n THEN ComplexMul(v[k + 1], <<Chirp(n, k)[1], NegF(Chirp(n, k)[2])>>)
                       ELSE <<0, 0>>

C27_BluesteinBuffers ==
    AfterBluestein =>
        BuffersAsSpecified(
            BluesteinBuffersOf(BluesteinInput, Len(arg.vals), bluesteinSize(Len(arg.vals))),
            BluesteinInput, Len(arg.vals), bluesteinSize(Len(arg.vals)))

C27_Witness ==
    /\ AfterBluestein
    /\ Len(arg.vals) = 5
    /\ arg.flag
    /\ arg.vals[2] # <<0, 0>>
    /\ calls[3] = [fn |-> "fft", n |-> 8]
    /\ err = NoError

(***************************************************************************)
(* C28.  For a power of two n, copyBitReversed returns a new array a2 of   *)
(* length n with a2[i2] = a1[rev(i2)], rev reversing the log2(n) bits of   *)
(* an index; rev is a permutation of 0..n-1 and its own inverse; the       *)
(* argument is not modified; and incrementBitReversed(i, n) returns, for   *)
(* every i in 0..n-1, the index that follows i in bit-reversed order, 0    *)
(* from n - 1 on and 0 for n = 1.                                          *)
(***************************************************************************)
Bit(i, b) == (i \div 2^b) % 2

RECURSIVE RevSum(_, _, _)
RevSum(i, bits, b) ==
    IF b < bits THEN Bit(i, b) * 2^(bits - 1 - b) + RevSum(i, bits, b + 1) ELSE 0

\* The index i of an array of 2^bits elements with its bits reversed.
Rev(i, bits) == RevSum(i, bits, 0)

IsInvolution(n, bits) ==
    /\ \A i \in 0..(n - 1) : Rev(i, bits) \in 0..(n - 1) /\ Rev(Rev(i, bits), bits) = i
    /\ {Rev(i, bits) : i \in 0..(n - 1)} = 0..(n - 1)

AfterCopy == op = "copyBitReversed" /\ IsPow2(Len(arg.vals))
AfterIncrement == op = "incrementBitReversed" /\ IsPow2(Len(arg.vals))

C28_CopyBitReversed ==
    /\ AfterCopy =>
           /\ err = NoError
           /\ y.length = Len(arg.vals)
           /\ Len(YVals) = Len(arg.vals)
           /\ \A i2 \in 0..(Len(arg.vals) - 1) :
                 YVals[i2 + 1] = arg.vals[Rev(i2, Log2(Len(arg.vals))) + 1]
           /\ IsInvolution(Len(arg.vals), Log2(Len(arg.vals)))
           /\ XVals = arg.vals
           /\ Bufs(y) \cap Bufs(x) = {}
    /\ AfterIncrement =>
           /\ arg.len = Rev((Rev(arg.i, Log2(Len(arg.vals))) + 1) % Len(arg.vals),
                            Log2(Len(arg.vals)))
           /\ arg.i = Len(arg.vals) - 1 => arg.len = 0

C28_Witness ==
    /\ AfterCopy
    /\ Len(arg.vals) = 8
    /\ YVals[2] = arg.vals[5]
    /\ YVals[4] = arg.vals[7]
    /\ YVals[4] # arg.vals[4]

C28_WitnessIncrement ==
    /\ AfterIncrement
    /\ Len(arg.vals) = 8
    /\ arg.i = 7
    /\ arg.len = 0

(***************************************************************************)
(* C29.  In applyButterflies for a power of two n >= 2 the stage width     *)
(* mMax takes the values 1, 2, 4, .., n / 2 in this order; in every pass   *)
(* the index m * (n / (2 * mMax)) into the sine table is a whole number in *)
(* 0..n/2 - 1 and the partner index j = i + mMax is at most n - 1; no pass *)
(* touches an index an earlier pass of its stage has touched, and the      *)
(* passes of a stage touch every index of 0..n-1.  The passes taken one by *)
(* one leave what applyButterflies leaves: the transform of the argument.  *)
(***************************************************************************)
InPasses == op = "butterfly" /\ IsPow2(Len(arg.vals)) /\ Len(arg.vals) >= 2

PassesEnded == InPasses /\ arg.mMax >= Len(arg.vals)

PassInside(p, n) ==
    /\ n % (2 * p.mMax) = 0
    /\ p.wIndex = p.m * (n \div (2 * p.mMax))
    /\ p.wIndex \in 0..(n \div 2 - 1)
    /\ p.m \in 0..(p.mMax - 1)
    /\ p.i >= 0
    /\ p.j = p.i + p.mMax
    /\ p.j <= n - 1

C29_ButterflyPasses ==
    InPasses =>
        /\ PassInside(arg.last, Len(arg.vals))
        /\ arg.fresh
        /\ arg.stageEnd => arg.done = 0..(Len(arg.vals) - 1)
        /\ \A k \in 1..Len(arg.widths) : arg.widths[k] = 2^(k - 1)
        /\ Len(arg.widths) <= Log2(Len(arg.vals))
        /\ PassesEnded =>
               /\ Len(arg.widths) = Log2(Len(arg.vals))
               /\ YVals = FftOf(arg.vals, TRUE).vals
        /\ XVals = arg.vals

C29_Witness ==
    /\ PassesEnded
    /\ Len(arg.vals) = 8
    /\ arg.widths = <<1, 2, 4>>
    /\ arg.last = [mMax |-> 4, m |-> 3, i |-> 3, j |-> 7, wIndex |-> 3]
    /\ arg.done = 0..7

(***************************************************************************)
(* C30.  The main thread has at most one task outstanding, whatever the    *)
(* order of the calls of execTask and of the messages of the worker: while *)
(* a task is active exactly its promise is pending and no other; a call of *)
(* execTask while a task is active returns a rejected promise, posts no    *)
(* request and leaves the pending task's callbacks in place; a message of  *)
(* the worker received while a task is active clears taskActive and        *)
(* settles the pending promise, resolving it if the message says ok and    *)
(* rejecting it otherwise, and no other promise; a message received while  *)
(* no task is active changes no promise and no task state.                 *)
(***************************************************************************)
PendingPromises(ps) == {p \in 1..Len(ps) : ps[p].state = "pending"}

OneOutstanding(active, ap, ps) ==
    /\ Cardinality(PendingPromises(ps)) <= 1
    /\ active => PendingPromises(ps) = {ap}
    /\ ~active => PendingPromises(ps) = {}

ExecTaskCalled == Len(promises') = Len(promises) + 1
MessageReceived == Len(toMain') = Len(toMain) - 1

C30_Step ==
    /\ OneOutstanding(taskActive', activePromise', promises')
    /\ (ExecTaskCalled /\ taskActive) =>
           /\ promises' = Append(promises, Thrown)
           /\ toWorker' = toWorker
           /\ activePromise' = activePromise
           /\ taskActive' = taskActive
    /\ (ExecTaskCalled /\ ~taskActive) =>
           /\ promises' = Append(promises, Pending)
           /\ Len(toWorker') = Len(toWorker) + 1
           /\ activePromise' = Len(promises')
           /\ taskActive'
    /\ (MessageReceived /\ taskActive) =>
           /\ ~taskActive'
           /\ promises'[activePromise].state =
                  IF Head(toMain).ok THEN "resolved" ELSE "rejected"
           /\ \A p \in 1..Len(promises) : p # activePromise => promises'[p] = promises[p]
           /\ Len(promises') = Len(promises)
           /\ console' = console
    /\ (MessageReceived /\ ~taskActive) =>
           /\ promises' = promises
           /\ ~taskActive'
           /\ activePromise' = activePromise
           /\ toWorker' = toWorker
           /\ Len(console') = Len(console) + 1

C30_OneTaskOutstanding == [][C30_Step]_vars

C30_Witness ==
    /\ Len(promises) = 3
    /\ promises[1].state = "resolved"
    /\ promises[2] = Thrown
    /\ promises[3] = [state |-> "rejected", msg |-> "Error in background task."]
    /\ ~taskActive
    /\ Len(console) = 1

====
